---- MODULE Spec2Model ----
(***************************************************************************)
(* A model of the HTTP server's routing core: the Router of                *)
(* src/router/main.ts (registration, groups, commit, match, makeUrl) and   *)
(* the middleware pipeline the server runs for a request, as exercised by  *)
(* the server's test suite.                                                *)
(***************************************************************************)
EXTENDS Integers, Sequences, FiniteSets, TLC

VARIABLES
    cfg,        \* the pipeline of one request: server, router and route middleware,
                \* the route handler, the error handler, the request's context
    run,        \* the state of that request's run
    router,     \* the Router: its fields, and the entities registered with it
    thrown,     \* what the last call on the router raised ("none" when it returned)
    lastCall,   \* the last call made on the router
    calls,      \* the number of registration calls made so far
    commits,    \* the number of commit() calls made so far
    snapshot,   \* the store, the lookup index and usingDomains as the first
                \* successful commit() left them
    answered,   \* the match() calls made on the router, in the order they were
                \* made: the store before the call, the request, the result,
                \* the store after the call
    inflight    \* the requests a server handles at the same time: the run and
                \* the context of each, and what was done with every context

pipelineVars == <<cfg, run, inflight>>

routerVars == <<router, thrown, lastCall, calls, commits, snapshot, answered>>

vars == <<cfg, run, router, thrown, lastCall, calls, commits, snapshot, answered, inflight>>

----------------------------------------------------------------------------
(* Bounds *)

\* the longest chain of middleware (server + router + route) of a request
MaxStages == 3

\* the number of request contexts a run may be given
NumContexts == 2

\* the number of registration calls (route, get, ..., group, use, where) made on
\* a router
MaxCalls == 2

\* the number of commit() calls made on a router
MaxCommits == 2

\* the longest time, in ticks, a signed url is made to last
MaxExpiresIn == 2

\* the number of match() calls made on a router
MaxMatches == 3

\* the number of registration calls made on a router whose groups are nested
MaxGroupCalls == 4

\* the number of requests a server handles at the same time
NumRequests == 2

\* the longest chain of middleware of requests handled at the same time
MaxInflightStages == 2

----------------------------------------------------------------------------
(* The pipeline: stages *)

\* What a middleware's handle method does, as the test suite writes them:
\*   pass      stack.push(name); return next()
\*   wrap      stack.push(name); await next(); stack.push(name + ' upstream')
\*   terminate stack.push(name); ctx.response.send('completed')       (no next)
\*   raise     stack.push(name); throw new Error('Something went wrong')
MiddlewareKinds == {"pass", "wrap", "terminate", "raise"}

\* What the route handler does: return a value, send a response and return a
\* value, or throw.
HandlerKinds == {"return", "send", "raise"}

\* What the error handler's handle method does: send a response, or throw.
ErrorHandlerKinds == {"respond", "raise"}

\* (mutant) every middleware that does not throw hands control downstream
CallsNextUnlessRaises(kind) == kind # "raise"

\* a middleware that calls next()
CallsNext(kind) == kind \in {"pass", "wrap"}

\* (mutant) no middleware is resumed after next()
NeverResumed(kind) == FALSE

\* a middleware with code after its await next()
HasUpstreamCode(kind) == kind = "wrap"

\* a middleware that throws
Raises(kind) == kind = "raise"

HandlerLabel == [level |-> "handler", pos |-> 0]

ErrorHandlerLabel == [level |-> "errorHandler", pos |-> 0]

NoLabel == [level |-> "none", pos |-> 0]

Stages(level, kinds) ==
    [i \in 1..Len(kinds) |-> [level |-> level, pos |-> i, kind |-> kinds[i]]]

Label(stage) == [level |-> stage.level, pos |-> stage.pos]

\* (mutant) the route's middleware is put before the server's
ChainRouteFirst(c) ==
    Stages("route", c.route) \o Stages("router", c.router) \o Stages("server", c.server)

\* The chain a request runs through: the server's middleware, then the
\* middleware of the matched route (the router's global middleware first, then
\* the route's own), each list in registration order.
Chain(c) ==
    Stages("server", c.server) \o Stages("router", c.router) \o Stages("route", c.route)

----------------------------------------------------------------------------
(* The pipeline: values *)

NoError == [thrownBy |-> NoLabel]

ErrorOf(label) == [thrownBy |-> label]

NoResponse == [status |-> 0, body |-> "none", by |-> NoLabel]

\* ctx.response.send(...) by a middleware or the handler
SentResponse(label) == [status |-> 200, body |-> "sent", by |-> label]

\* the handler's return value used as the body
ReturnValueResponse == [status |-> 200, body |-> "returned", by |-> HandlerLabel]

\* the error handler's response to an error: the error's message
HandledResponse(error) == [status |-> 500, body |-> "message", by |-> error.thrownBy]

\* response.internalServerError(error.message), for an error nothing handled
InternalServerError(error) == [status |-> 500, body |-> "message", by |-> error.thrownBy]

NewRun ==
    [pc       |-> "pending",
     idx      |-> 0,
     frames   |-> << >>,
     log      |-> << >>,
     ehCalls  |-> << >>,
     error    |-> NoError,
     returned |-> FALSE,
     response |-> NoResponse,
     outcome  |-> "none"]

\* no request received yet (a request has the context 0 until the server has
\* created one for it), and no context created
NoRequests ==
    [requests |-> [q \in 1..NumRequests |-> [ctx |-> 0, run |-> NewRun]],
     contexts |-> << >>]

----------------------------------------------------------------------------
(* The pipeline: one run *)

LogEntry(ev, label) == [ev |-> ev, at |-> label]

\* run(ctx): execution starts at the first stage
StartRun(r) == [r EXCEPT !.pc = "down", !.idx = 1]

\* The stage at r.idx is invoked with (ctx, next). A stage that calls next()
\* hands control to the stage after it and waits for it; one that returns
\* without calling next() hands control back to the stage before it; one that
\* throws has its error caught where it was thrown.
EnterStage(c, r) ==
    LET stage   == Chain(c)[r.idx]
        entered == [r EXCEPT !.log = Append(@, LogEntry("enter", Label(stage)))]
    IN  IF CallsNext(stage.kind)
        THEN [entered EXCEPT !.frames = Append(@, r.idx), !.idx = r.idx + 1]
        ELSE IF Raises(stage.kind)
        THEN [entered EXCEPT !.error = ErrorOf(Label(stage)), !.pc = "caught"]
        ELSE [entered EXCEPT !.response = SentResponse(Label(stage)), !.pc = "up"]

\* (mutant) the handler's return value is written whatever was sent before
UseReturnValueAlways(r) == [r EXCEPT !.response = ReturnValueResponse]

\* The handler's return value becomes the response body when no response has
\* been written.
UseReturnValue(r) ==
    IF r.response = NoResponse
    THEN [r EXCEPT !.response = ReturnValueResponse]
    ELSE r

\* (mutant) an error of the route handler is not given to the error handler
EnterHandlerUncaught(c, r) ==
    LET entered == [r EXCEPT !.log = Append(@, LogEntry("enter", HandlerLabel))]
    IN  IF c.handler = "raise"
        THEN [entered EXCEPT !.error = ErrorOf(HandlerLabel), !.pc = "rejected"]
        ELSE UseReturnValue([entered EXCEPT
                 !.response = IF c.handler = "send" THEN SentResponse(HandlerLabel) ELSE @,
                 !.returned = TRUE, !.pc = "up"])

\* The route handler is invoked once the last middleware has called next().
EnterHandler(c, r) ==
    LET entered == [r EXCEPT !.log = Append(@, LogEntry("enter", HandlerLabel))]
    IN  CASE c.handler = "return" ->
             UseReturnValue([entered EXCEPT !.returned = TRUE, !.pc = "up"])
          [] c.handler = "send" ->
             UseReturnValue([entered EXCEPT !.response = SentResponse(HandlerLabel),
                                            !.returned = TRUE, !.pc = "up"])
          [] c.handler = "raise" ->
             [entered EXCEPT !.error = ErrorOf(HandlerLabel), !.pc = "caught"]

\* (mutant) an error unwinds through the waiting stages, whose code after
\* next() is skipped, before the error handler is invoked at the boundary
HandleErrorAtBoundary(c, r) ==
    LET called == [r EXCEPT !.ehCalls = Append(@, [error |-> r.error, ctx |-> c.ctx]),
                            !.log = Append(@, LogEntry("enter", ErrorHandlerLabel)),
                            !.frames = << >>]
    IN  IF c.errorHandler = "respond"
        THEN [called EXCEPT !.response = HandledResponse(r.error),
                            !.error = NoError, !.pc = "up"]
        ELSE [called EXCEPT !.error = ErrorOf(ErrorHandlerLabel), !.pc = "rejected"]

\* (mutant) after the error handler has returned, the chain goes on downstream
HandleErrorResumesDownstream(c, r) ==
    LET called == [r EXCEPT !.ehCalls = Append(@, [error |-> r.error, ctx |-> c.ctx]),
                            !.log = Append(@, LogEntry("enter", ErrorHandlerLabel))]
    IN  IF c.errorHandler = "respond"
        THEN [called EXCEPT !.response = HandledResponse(r.error), !.error = NoError,
                            !.pc = IF r.idx <= Len(Chain(c)) THEN "down" ELSE "up",
                            !.idx = r.idx + 1]
        ELSE [called EXCEPT !.error = ErrorOf(ErrorHandlerLabel), !.pc = "rejected"]

\* (mutant) the error of a throwing error handler is dropped for the first one
HandleErrorKeepsFirstError(c, r) ==
    LET called == [r EXCEPT !.ehCalls = Append(@, [error |-> r.error, ctx |-> c.ctx]),
                            !.log = Append(@, LogEntry("enter", ErrorHandlerLabel))]
    IN  IF c.errorHandler = "respond"
        THEN [called EXCEPT !.response = HandledResponse(r.error),
                            !.error = NoError, !.pc = "up"]
        ELSE [called EXCEPT !.pc = "rejected"]

\* The error handler is invoked with (error, ctx) before control goes back
\* upstream. When it returns, the stages upstream resume as if next() had
\* returned; when it throws, its error is the run's.
HandleError(c, r) ==
    LET called == [r EXCEPT !.ehCalls = Append(@, [error |-> r.error, ctx |-> c.ctx]),
                            !.log = Append(@, LogEntry("enter", ErrorHandlerLabel))]
    IN  IF c.errorHandler = "respond"
        THEN [called EXCEPT !.response = HandledResponse(r.error),
                            !.error = NoError, !.pc = "up"]
        ELSE [called EXCEPT !.error = ErrorOf(ErrorHandlerLabel), !.pc = "rejected"]

\* (mutant) the stages waiting for next() resume outermost first
ReturnUpstreamOutermostFirst(c, r) ==
    LET i     == r.frames[1]
        stage == Chain(c)[i]
        back  == [r EXCEPT !.frames = SubSeq(@, 2, Len(@))]
    IN  IF HasUpstreamCode(stage.kind)
        THEN [back EXCEPT !.log = Append(@, LogEntry("post", Label(stage)))]
        ELSE back

\* next() returns in the innermost stage waiting for it; its code after
\* next(), if any, runs.
ReturnUpstream(c, r) ==
    LET i     == r.frames[Len(r.frames)]
        stage == Chain(c)[i]
        back  == [r EXCEPT !.frames = SubSeq(@, 1, Len(@) - 1)]
    IN  IF HasUpstreamCode(stage.kind)
        THEN [back EXCEPT !.log = Append(@, LogEntry("post", Label(stage)))]
        ELSE back

\* (mutant) the promise of run(ctx) stays pending after the outermost stage
\* has returned
CompleteNeverResolves(r) == r

\* the outermost stage has returned: run(ctx) resolves
Complete(r) == [r EXCEPT !.pc = "done", !.outcome = "completed"]

\* The error handler's own error goes up through every waiting stage, none of
\* which runs its code after next(); run(ctx) rejects and the server answers
\* with the error's message.
Reject(r) ==
    [r EXCEPT !.frames = << >>, !.response = InternalServerError(r.error),
              !.pc = "done", !.outcome = "faulted"]

----------------------------------------------------------------------------
(* The router: routes, entities, stores *)

\* A text (a path, a segment of it, a param value) is a sequence of
\* characters; a word without any reserved character counts as one character.
\* A segment of a pattern is a literal text, or a param that takes one segment
\* of the path (one label of the hostname) as its value.
Static(v) == [type |-> "static", val |-> <<v>>, name |-> ""]

Param(n) == [type |-> "param", val |-> << >>, name |-> n]

\* the domain of a route registered without one
RootDomain == << >>

\* a request without a hostname
NoHost == << >>

\* a route as toJSON() gives it to the stores; its matchers (param, matcher)
\* and its middleware are those defined on the route itself until toJSON()
\* puts the router's with them
RouteJSON(pattern, methods, name, domain) ==
    [pattern |-> pattern, methods |-> methods, name |-> name, domain |-> domain,
     matchers |-> {}, middleware |-> << >>]

\* the name of a route that was given none
NoName == << >>

NoRoute == RouteJSON(<< >>, {}, NoName, RootDomain)

\* The entities of the routes collection: a Route, a RouteGroup with the
\* entities registered inside it, a RouteResource, a BriskRoute (whose route
\* is NoRoute until a handler is bound to it). given is what the router's
\* middleware array held when the entity was created with it.
RouteEntity(json) ==
    [kind |-> "route", json |-> json, routes |-> << >>, resource |-> "", shallow |-> FALSE,
     given |-> << >>]

GroupEntity ==
    [kind |-> "group", json |-> NoRoute, routes |-> << >>, resource |-> "", shallow |-> FALSE,
     given |-> << >>]

ResourceEntity(resource, shallow) ==
    [kind |-> "resource", json |-> NoRoute, routes |-> << >>,
     resource |-> resource, shallow |-> shallow, given |-> << >>]

BriskEntity(json) ==
    [kind |-> "brisk", json |-> json, routes |-> << >>, resource |-> "", shallow |-> FALSE,
     given |-> << >>]

\* what commit() left in the stores, before any commit() has succeeded
NoSnapshot == [store |-> << >>, lookup |-> << >>, usingDomains |-> FALSE, taken |-> FALSE]

\* new Router(app, encryption, qsParser)
NewRouter ==
    [commited       |-> FALSE,
     store          |-> << >>,
     lookup         |-> << >>,
     globalMatchers |-> {},
     middleware     |-> << >>,
     openedGroups   |-> << >>,
     routes         |-> << >>,
     usingDomains   |-> FALSE,
     heap           |-> << >>]

\* The conventional routes of a resource: index, create, store, show, edit,
\* update, destroy.
ResourceRoutes(resource, shallow) ==
    LET base   == <<Static(resource)>>
        member == <<Static(resource), Param("id")>>
    IN  <<RouteJSON(base, {"GET", "HEAD"}, <<resource, "index">>, RootDomain),
          RouteJSON(base \o <<Static("create")>>, {"GET", "HEAD"}, <<resource, "create">>, RootDomain),
          RouteJSON(base, {"POST"}, <<resource, "store">>, RootDomain),
          RouteJSON(member, {"GET", "HEAD"}, <<resource, "show">>, RootDomain),
          RouteJSON(member \o <<Static("edit")>>, {"GET", "HEAD"}, <<resource, "edit">>, RootDomain),
          RouteJSON(member, {"PUT", "PATCH"}, <<resource, "update">>, RootDomain),
          RouteJSON(member, {"DELETE"}, <<resource, "destroy">>, RootDomain)>>

\* toRoutesJSON(routes): the flat list of the routes of a forest of entities,
\* in registration order.
RECURSIVE ToRoutesJSON(_, _)
ToRoutesJSON(heap, ids) ==
    IF ids = << >>
    THEN << >>
    ELSE LET e    == heap[Head(ids)]
             rest == ToRoutesJSON(heap, Tail(ids))
         IN  CASE e.kind = "group"    -> ToRoutesJSON(heap, e.routes) \o rest
               [] e.kind = "resource" -> ResourceRoutes(e.resource, e.shallow) \o rest
               [] e.kind = "brisk"    -> IF e.json = NoRoute THEN rest ELSE <<e.json>> \o rest
               [] OTHER               -> <<e.json>> \o rest

\* (mutant) the router's matcher for a param wins over the route's own
GlobalMatchersFirst(globalMatchers, matchers) ==
    globalMatchers \cup {w \in matchers : \A g \in globalMatchers : g[1] # w[1]}

\* the matchers of a route: the router's (the object the route was given when
\* it was created), except for the params the route has a matcher of its own
\* for
GetMatchers(globalMatchers, matchers) ==
    matchers \cup {g \in globalMatchers : \A w \in matchers : w[1] # g[1]}

\* Route.toJSON() for a route created by the router st: the route was given
\* the router's middleware array and global matchers object themselves, and
\* reads them when it is flattened
ToJSON(st, json) ==
    [json EXCEPT !.matchers = GetMatchers(st.globalMatchers, @),
                 !.middleware = st.middleware \o @]

\* toRoutesJSON(this.routes) in commit()
RoutesJSON(st) ==
    LET flat == ToRoutesJSON(st.heap, st.routes)
    IN  [i \in 1..Len(flat) |-> ToJSON(st, flat[i])]

\* LookupStore.register(route)
Register(lookup, route) == Append(lookup, route)

\* RoutesStore.add(route)
StoreAdd(store, route) == Append(store, route)

\* RoutesStore.usingDomains: a route of an explicit domain has been added
StoreUsingDomains(store) == \E i \in 1..Len(store) : store[i].domain # RootDomain

----------------------------------------------------------------------------
(* The router: registration and commit *)

\* (mutant) #pushToRoutes that puts the entity into the group opened first
PushToOutermost(st, entity) ==
    LET id      == Len(st.heap) + 1
        created == [st EXCEPT !.heap = Append(@, entity)]
    IN  IF st.openedGroups # << >>
        THEN [created EXCEPT !.heap[st.openedGroups[1]].routes = Append(@, id)]
        ELSE [created EXCEPT !.routes = Append(@, id)]

\* #pushToRoutes(entity): the entity goes to the most recently opened group,
\* or to the routes collection when no group is open.
PushToRoutes(st, entity) ==
    LET id      == Len(st.heap) + 1
        created == [st EXCEPT !.heap = Append(@, entity)]
    IN  IF st.openedGroups # << >>
        THEN [created EXCEPT !.heap[st.openedGroups[Len(st.openedGroups)]].routes = Append(@, id)]
        ELSE [created EXCEPT !.routes = Append(@, id)]

\* new Route(app, this.#middleware, options), and the like for a resource and
\* a brisk route: the entity is created with the router's middleware array
Created(st, entity) == [entity EXCEPT !.given = st.middleware]

\* route(pattern, methods, handler), with the name and the domain given to the
\* route it returns
RouteOp(st, pattern, methods, name, domain) ==
    PushToRoutes(st, Created(st, RouteEntity(RouteJSON(pattern, methods, name, domain))))

AnyMethods == {"HEAD", "OPTIONS", "GET", "POST", "PUT", "PATCH", "DELETE"}

\* route.where(param, matcher) on the route a registration method returned
Where(json, param, matcher) ==
    [json EXCEPT !.matchers = {w \in @ : w[1] # param} \cup {<<param, matcher>>}]

\* get(pattern, handler).where(param, matcher)
GetWhereOp(st, pattern, name, domain, param, matcher) ==
    PushToRoutes(st, Created(st, RouteEntity(Where(RouteJSON(pattern, {"GET", "HEAD"},
                                                             name, domain),
                                                   param, matcher))))

\* any(pattern, handler)
AnyOp(st, pattern, name, domain) == RouteOp(st, pattern, AnyMethods, name, domain)

\* (mutant) get() that registers GET alone
GetOpWithoutHead(st, pattern, name, domain) == RouteOp(st, pattern, {"GET"}, name, domain)

\* get(pattern, handler)
GetOp(st, pattern, name, domain) == RouteOp(st, pattern, {"GET", "HEAD"}, name, domain)

\* post(pattern, handler)
PostOp(st, pattern, name, domain) == RouteOp(st, pattern, {"POST"}, name, domain)

\* put(pattern, handler)
PutOp(st, pattern, name, domain) == RouteOp(st, pattern, {"PUT"}, name, domain)

\* patch(pattern, handler)
PatchOp(st, pattern, name, domain) == RouteOp(st, pattern, {"PATCH"}, name, domain)

\* delete(pattern, handler)
DeleteOp(st, pattern, name, domain) == RouteOp(st, pattern, {"DELETE"}, name, domain)

\* group(callback), up to the call of the callback: the group is tracked and
\* opened
GroupOpenOp(st) ==
    LET pushed == PushToRoutes(st, GroupEntity)
    IN  [pushed EXCEPT !.openedGroups = Append(@, Len(pushed.heap))]

\* group(callback), once the callback has returned: the group is closed
GroupCloseOp(st) ==
    [st EXCEPT !.openedGroups = SubSeq(@, 1, Len(@) - 1)]

\* group(callback) with a callback that throws: the group is tracked and
\* opened, the error of the callback leaves group() at the call of the
\* callback, and the lines after it are not run
GroupThrowOp(st) ==
    LET pushed == PushToRoutes(st, GroupEntity)
    IN  [pushed EXCEPT !.openedGroups = Append(@, Len(pushed.heap))]

\* resource(resource, controller)
ResourceOp(st, resource) ==
    PushToRoutes(st, Created(st, ResourceEntity(resource, FALSE)))

\* shallowResource(resource, controller)
ShallowResourceOp(st, resource) ==
    PushToRoutes(st, Created(st, ResourceEntity(resource, TRUE)))

\* on(pattern), with or without the terminal call (redirect, redirectToPath)
\* that binds a handler to the brisk route
OnOp(st, pattern, bound) ==
    PushToRoutes(st, Created(st, BriskEntity(
        IF bound THEN RouteJSON(pattern, {"GET", "HEAD"}, NoName, RootDomain) ELSE NoRoute)))

\* (mutant) use() that puts the middleware in the place of the list
UseOpReplaces(st, middleware) == [st EXCEPT !.middleware = middleware]

\* use(middleware)
UseOp(st, middleware) == [st EXCEPT !.middleware = @ \o middleware]

\* where(param, matcher)
WhereOp(st, param, matcher) ==
    [st EXCEPT !.globalMatchers = {m \in @ : m[1] # param} \cup {<<param, matcher>>}]

\* (mutant) the loop of commit() with one set of names for all the domains
RECURSIVE CommitRoutesOneNamespace(_, _, _)
CommitRoutesOneNamespace(st, list, routeNames) ==
    IF list = << >>
    THEN [router |-> st, thrown |-> "none"]
    ELSE LET route == Head(list)
         IN  IF route.name # NoName /\ route.name \in routeNames
             THEN [router |-> st, thrown |-> "DuplicateRouteName"]
             ELSE CommitRoutesOneNamespace(
                      [st EXCEPT !.lookup = Register(@, route), !.store = StoreAdd(@, route)],
                      Tail(list),
                      IF route.name # NoName
                      THEN routeNames \cup {route.name}
                      ELSE routeNames)

\* The loop of commit(): each route is registered with the lookup store and
\* added to the routes store, until one has a name already used in its domain.
RECURSIVE CommitRoutes(_, _, _)
CommitRoutes(st, list, routeNamesByDomain) ==
    IF list = << >>
    THEN [router |-> st, thrown |-> "none"]
    ELSE LET route == Head(list)
         IN  IF route.name # NoName /\ <<route.domain, route.name>> \in routeNamesByDomain
             THEN [router |-> st, thrown |-> "DuplicateRouteName"]
             ELSE CommitRoutes(
                      [st EXCEPT !.lookup = Register(@, route), !.store = StoreAdd(@, route)],
                      Tail(list),
                      IF route.name # NoName
                      THEN routeNamesByDomain \cup {<<route.domain, route.name>>}
                      ELSE routeNamesByDomain)

\* the entities still referred to once the routes collection is emptied: those
\* of the groups that are open
Retained(st) == IF st.openedGroups = << >> THEN << >> ELSE st.heap

\* (mutant) commit() that empties the global matchers before it flattens the
\* routes
CommitWithoutMatchers(st) ==
    IF st.commited
    THEN [router |-> st, thrown |-> "none"]
    ELSE LET res == CommitRoutes(st, RoutesJSON([st EXCEPT !.globalMatchers = {}]), {})
         IN  IF res.thrown # "none"
             THEN res
             ELSE [router |-> [res.router EXCEPT
                                  !.usingDomains = StoreUsingDomains(res.router.store),
                                  !.routes = << >>,
                                  !.globalMatchers = {},
                                  !.middleware = << >>,
                                  !.commited = TRUE,
                                  !.heap = Retained(st)],
                   thrown |-> "none"]

\* (mutant) commit() without the check of the commited flag
CommitUnguarded(st) ==
    LET res == CommitRoutes(st, RoutesJSON(st), {})
    IN  IF res.thrown # "none"
        THEN res
        ELSE [router |-> [res.router EXCEPT
                             !.usingDomains = StoreUsingDomains(res.router.store),
                             !.routes = << >>,
                             !.globalMatchers = {},
                             !.middleware = << >>,
                             !.commited = TRUE,
                             !.heap = Retained(st)],
              thrown |-> "none"]

\* (mutant) commit() that does not set the commited flag
CommitUnmarked(st) ==
    IF st.commited
    THEN [router |-> st, thrown |-> "none"]
    ELSE LET res == CommitRoutes(st, RoutesJSON(st), {})
         IN  IF res.thrown # "none"
             THEN res
             ELSE [router |-> [res.router EXCEPT
                                  !.usingDomains = StoreUsingDomains(res.router.store),
                                  !.globalMatchers = {},
                                  !.middleware = << >>,
                                  !.heap = Retained(st)],
                   thrown |-> "none"]

\* commit(): nothing when the routes are committed already; else the routes of
\* the collection go to the stores, the collection, the global matchers and the
\* middleware are emptied and the router is marked committed. A duplicate name
\* ends the call where it is found.
Commit(st) ==
    IF st.commited
    THEN [router |-> st, thrown |-> "none"]
    ELSE LET res == CommitRoutes(st, RoutesJSON(st), {})
         IN  IF res.thrown # "none"
             THEN res
             ELSE [router |-> [res.router EXCEPT
                                  !.usingDomains = StoreUsingDomains(res.router.store),
                                  !.routes = << >>,
                                  !.globalMatchers = {},
                                  !.middleware = << >>,
                                  !.commited = TRUE,
                                  !.heap = Retained(st)],
                   thrown |-> "none"]

----------------------------------------------------------------------------
(* The router: matching and URL building *)

NoParams == << >>

\* encodeURIComponent of one character: the reserved ones are escaped
EncodeChar(c) ==
    CASE c = " " -> <<"%", "2", "0">>
      [] c = "/" -> <<"%", "2", "F">>
      [] c = "%" -> <<"%", "2", "5">>
      [] OTHER   -> <<c>>

\* the percent-encoding of a param value
RECURSIVE Encode(_)
Encode(text) ==
    IF text = << >>
    THEN << >>
    ELSE EncodeChar(Head(text)) \o Encode(Tail(text))

Escapes == {EncodeChar(" "), EncodeChar("/"), EncodeChar("%")}

Unescaped(escape) == CHOOSE c \in {" ", "/", "%"} : EncodeChar(c) = escape

\* the percent-decoding of a captured value: every escape is replaced by its
\* character, anything else is kept
RECURSIVE Decode(_)
Decode(text) ==
    IF text = << >>
    THEN << >>
    ELSE IF Len(text) >= 3 /\ SubSeq(text, 1, 3) \in Escapes
         THEN <<Unescaped(SubSeq(text, 1, 3))>> \o Decode(SubSeq(text, 4, Len(text)))
         ELSE <<Head(text)>> \o Decode(Tail(text))

\* a text cut at every "/"
RECURSIVE SplitPath(_)
SplitPath(text) ==
    IF \A i \in 1..Len(text) : text[i] # "/"
    THEN <<text>>
    ELSE LET k == CHOOSE i \in 1..Len(text) :
                      text[i] = "/" /\ \A j \in 1..(i - 1) : text[j] # "/"
         IN  <<SubSeq(text, 1, k - 1)>> \o SplitPath(SubSeq(text, k + 1, Len(text)))

\* the segments of a url: what is between its slashes, after the leading one
PathSegments(url) ==
    LET rest == IF url # << >> /\ Head(url) = "/" THEN Tail(url) ELSE url
    IN  IF rest = << >> THEN << >> ELSE SplitPath(rest)

\* the url of a sequence of segments: each after a slash, "/" when there is none
RECURSIVE JoinPath(_)
JoinPath(segments) ==
    IF segments = << >>
    THEN << >>
    ELSE <<"/">> \o Head(segments) \o JoinPath(Tail(segments))

MakePath(segments) == IF segments = << >> THEN <<"/">> ELSE JoinPath(segments)

\* the captured values, decoded
DecodeParams(params) == [i \in 1..Len(params) |-> <<params[i][1], Decode(params[i][2])>>]

\* (mutant) a pattern matches a path it is the beginning of
MatchesPrefix(pattern, segments) ==
    /\ Len(pattern) <= Len(segments)
    /\ \A i \in 1..Len(pattern) :
           IF pattern[i].type = "static"
           THEN pattern[i].val = segments[i]
           ELSE segments[i] # << >>

\* A pattern against the segments of a path (or a domain pattern against the
\* labels of a hostname): a static segment wants the same text, a param takes
\* one segment as its value.
Matches(pattern, segments) ==
    /\ Len(pattern) = Len(segments)
    /\ \A i \in 1..Len(pattern) :
           IF pattern[i].type = "static"
           THEN pattern[i].val = segments[i]
           ELSE segments[i] # << >>

Digits == {"0", "1", "2", "3", "4", "5", "6", "7", "8", "9"}

\* a param value against a matcher: "number" wants digits only, "any" takes
\* every value
Satisfies(matcher, value) ==
    matcher = "number" => \A k \in 1..Len(value) : value[k] \in Digits

\* (mutant) a route matches the path when its pattern does, whatever its
\* matchers
RouteMatchesPattern(route, segments) == Matches(route.pattern, segments)

\* a route against the segments of a path: its pattern matches and the value
\* of every param satisfies the matcher the route has for it
RouteMatches(route, segments) ==
    /\ Matches(route.pattern, segments)
    /\ \A k \in 1..Len(route.pattern), w \in route.matchers :
           (route.pattern[k].type = "param" /\ route.pattern[k].name = w[1])
               => Satisfies(w[2], segments[k])

\* the params a matching pattern takes from the segments, in pattern order
RECURSIVE Captured(_, _)
Captured(pattern, segments) ==
    IF pattern = << >>
    THEN << >>
    ELSE IF Head(pattern).type = "param"
         THEN <<<<Head(pattern).name, Head(segments)>>>>
                  \o Captured(Tail(pattern), Tail(segments))
         ELSE Captured(Tail(pattern), Tail(segments))

NumParams(pattern) == Cardinality({i \in 1..Len(pattern) : pattern[i].type = "param"})

\* the domains of the store's routes, each at the position of the first route
\* added for it
StoreDomains(store) ==
    {i \in 1..Len(store) :
        /\ store[i].domain # RootDomain
        /\ \A j \in 1..(i - 1) : store[j].domain # store[i].domain}

\* RoutesStore.matchDomain(hostname): the tokens of the registered domain the
\* hostname resolves to, literal domains before parameterized ones, or no
\* tokens when there is no hostname, no domain in use, or none matches.
MatchDomain(store, hostname) ==
    LET hits   == {i \in StoreDomains(store) : Matches(store[i].domain, hostname)}
        fewest == {i \in hits : \A j \in hits :
                       NumParams(store[i].domain) <= NumParams(store[j].domain)}
    IN  IF hostname = NoHost \/ ~StoreUsingDomains(store) \/ hits = {}
        THEN << >>
        ELSE store[CHOOSE i \in fewest : \A j \in fewest : i <= j].domain

NoMatch == [found |-> FALSE, route |-> NoRoute, params |-> NoParams, subdomains |-> NoParams]

\* RoutesStore.match(url, method, domain?): the first route of the domain
\* (the domain-less routes when no domain is given) whose methods hold the
\* method and whose pattern matches the url, with the params taken from the
\* url and from the hostname.
StoreMatch(store, url, method, domain) ==
    LET segments == PathSegments(url)
        hits     == {i \in 1..Len(store) :
                        /\ store[i].domain = domain.tokens
                        /\ method \in store[i].methods
                        /\ RouteMatches(store[i], segments)}
    IN  IF hits = {}
        THEN NoMatch
        ELSE LET route == store[CHOOSE i \in hits : \A j \in hits : i <= j]
             IN  [found      |-> TRUE,
                  route      |-> route,
                  params     |-> DecodeParams(Captured(route.pattern, segments)),
                  subdomains |-> Captured(domain.tokens, domain.hostname)]

\* (mutant) match() in the scope of the domain registered first among those
\* the hostname matches
MatchFirstDomain(st, url, method, hostname) ==
    LET hits == {i \in StoreDomains(st.store) : Matches(st.store[i].domain, hostname)}
    IN  IF hostname = NoHost \/ hits = {}
        THEN StoreMatch(st.store, url, method, [tokens |-> RootDomain, hostname |-> NoHost])
        ELSE StoreMatch(st.store, url, method,
                        [tokens   |-> st.store[CHOOSE i \in hits : \A j \in hits : i <= j].domain,
                         hostname |-> hostname])

\* (mutant) match() that looks through the routes of the store last to first
MatchLastRegistered(st, url, method, hostname) ==
    LET store    == [i \in 1..Len(st.store) |-> st.store[Len(st.store) + 1 - i]]
        matchingDomain == MatchDomain(store, hostname)
    IN  IF Len(matchingDomain) > 0
        THEN StoreMatch(store, url, method,
                        [tokens |-> matchingDomain, hostname |-> hostname])
        ELSE StoreMatch(store, url, method,
                        [tokens |-> RootDomain, hostname |-> NoHost])

\* (mutant) match() that tries the domain-less routes when the domain of the
\* hostname has no route for the request
MatchFallsBackToRoot(st, url, method, hostname) ==
    LET matchingDomain == MatchDomain(st.store, hostname)
        scoped == StoreMatch(st.store, url, method,
                             [tokens |-> matchingDomain, hostname |-> hostname])
    IN  IF Len(matchingDomain) > 0 /\ scoped.found
        THEN scoped
        ELSE StoreMatch(st.store, url, method, [tokens |-> RootDomain, hostname |-> NoHost])

\* (mutant) match() that does not look at the hostname
MatchWithoutDomain(st, url, method, hostname) ==
    StoreMatch(st.store, url, method, [tokens |-> RootDomain, hostname |-> NoHost])

\* (mutant) match() without the request's method: the first route of the
\* scope whose pattern matches the url, whatever its methods
MatchAnyMethod(st, url, method, hostname) ==
    LET matchingDomain == MatchDomain(st.store, hostname)
        domain  == IF Len(matchingDomain) > 0
                   THEN [tokens |-> matchingDomain, hostname |-> hostname]
                   ELSE [tokens |-> RootDomain, hostname |-> NoHost]
        methods == {m \in AnyMethods : StoreMatch(st.store, url, m, domain).found}
    IN  IF methods = {}
        THEN NoMatch
        ELSE StoreMatch(st.store, url,
                        IF method \in methods THEN method ELSE CHOOSE m \in methods : TRUE,
                        domain)

\* (mutant) match() tells a path that has routes under other methods only from
\* a path that has none: it returns the route of the path, marked not found
MatchMethodNotAllowed(st, url, method, hostname) ==
    LET matchingDomain == MatchDomain(st.store, hostname)
        domain  == IF Len(matchingDomain) > 0
                   THEN [tokens |-> matchingDomain, hostname |-> hostname]
                   ELSE [tokens |-> RootDomain, hostname |-> NoHost]
        matched == StoreMatch(st.store, url, method, domain)
        others  == {m \in AnyMethods : StoreMatch(st.store, url, m, domain).found}
    IN  IF matched.found \/ others = {}
        THEN matched
        ELSE [StoreMatch(st.store, url, CHOOSE m \in others : TRUE, domain)
                  EXCEPT !.found = FALSE]

\* Router.match(url, method, hostname)
Match(st, url, method, hostname) ==
    LET matchingDomain == MatchDomain(st.store, hostname)
    IN  IF Len(matchingDomain) > 0
        THEN StoreMatch(st.store, url, method,
                        [tokens |-> matchingDomain, hostname |-> hostname])
        ELSE StoreMatch(st.store, url, method,
                        [tokens |-> RootDomain, hostname |-> NoHost])

\* (mutant) match() as a call that moves the route it found to the front of
\* the store
MatchOpMovesToFront(st, url, method, hostname) ==
    LET result == Match(st, url, method, hostname)
        others == SelectSeq(st.store, LAMBDA route : route # result.route)
    IN  [router |-> IF result.found
                    THEN [st EXCEPT !.store = <<result.route>> \o others]
                    ELSE st,
         result |-> result]

\* Router.match(url, method, hostname) as a call on the router: what it
\* returns and the router it leaves (it assigns to no field)
MatchOp(st, url, method, hostname) ==
    [router |-> st, result |-> Match(st, url, method, hostname)]

\* the value given for a param, empty when there is none
ParamValue(params, name) ==
    IF \E i \in 1..Len(params) : params[i][1] = name
    THEN params[CHOOSE i \in 1..Len(params) : params[i][1] = name][2]
    ELSE << >>

\* UrlBuilder.make(name): the named route of the domain, its params replaced
\* by the values given, percent-encoded
BuildUrl(lookup, name, params, domain) ==
    LET hits == {i \in 1..Len(lookup) : lookup[i].domain = domain /\ lookup[i].name = name}
    IN  IF hits = {}
        THEN [error |-> "RouteNotFound", url |-> << >>]
        ELSE LET route == lookup[CHOOSE i \in hits : \A j \in hits : i <= j]
             IN  IF \E i \in 1..Len(route.pattern) :
                        /\ route.pattern[i].type = "param"
                        /\ ParamValue(params, route.pattern[i].name) = << >>
                 THEN [error |-> "MissingParam", url |-> << >>]
                 ELSE [error |-> "none",
                       url   |-> MakePath([i \in 1..Len(route.pattern) |->
                                     IF route.pattern[i].type = "param"
                                     THEN Encode(ParamValue(params, route.pattern[i].name))
                                     ELSE route.pattern[i].val])]

\* (mutant) makeUrl() that does not hand the params to the builder
MakeUrlWithoutParams(st, name, params, domain) == BuildUrl(st.lookup, name, NoParams, domain)

\* (mutant) makeUrl() that takes the builder of the domain-less routes whatever
\* options.domain is
MakeUrlOfRootOnly(st, name, params, domain) == BuildUrl(st.lookup, name, params, RootDomain)

\* Router.makeUrl(routeIdentifier, params, options)
\* (options.domain absent: the builder of the domain-less routes)
MakeUrl(st, name, params, domain) == BuildUrl(st.lookup, name, params, domain)

----------------------------------------------------------------------------
\* options.expiresIn when the url is not to expire, and the expiry of a token
\* that has none
NoExpiry == << >>

NoToken == [payload |-> << >>, purpose |-> "", expiresAt |-> NoExpiry]

\* The signing collaborator, sign(payload, purpose, expiresAt): the token is
\* opaque; it stands for what was signed and cannot be made without signing.
Sign(payload, purpose, expiresAt) ==
    [payload |-> payload, purpose |-> purpose, expiresAt |-> expiresAt]

\* verify(token, purpose) at the time now: the payload signed, or nothing for
\* another purpose or an expired token
Verify(token, purpose, now) ==
    IF \/ token = NoToken
       \/ token.purpose # purpose
       \/ token.expiresAt # NoExpiry /\ now > token.expiresAt[1]
    THEN << >>
    ELSE <<token.payload>>

\* the canonical payload of a url: its path and its query string
SignedPayload(url, qs) == [url |-> url, qs |-> qs]

\* UrlBuilder.makeSigned(name, options) at the time now: the url of the route
\* with a signature over its path and query string, appended as a query param
MakeSigned(lookup, name, params, options, now) ==
    LET built == BuildUrl(lookup, name, params, options.domain)
    IN  IF built.error # "none"
        THEN [error |-> built.error, url |-> << >>, qs |-> << >>, signature |-> NoToken]
        ELSE [error     |-> "none",
              url       |-> built.url,
              qs        |-> options.qs,
              signature |-> Sign(SignedPayload(built.url, options.qs), "signed_url",
                                 IF options.expiresIn = NoExpiry
                                 THEN NoExpiry
                                 ELSE <<now + options.expiresIn[1]>>)]

\* (mutant) makeSignedUrl() that does not hand its options to makeSigned
MakeSignedUrlWithoutOptions(st, name, params, options, now) ==
    MakeSigned(st.lookup, name, params, [options EXCEPT !.expiresIn = NoExpiry], now)

\* Router.makeSignedUrl(routeIdentifier, params, options)
MakeSignedUrl(st, name, params, options, now) ==
    MakeSigned(st.lookup, name, params, options, now)

\* request.hasValidSignature() at the time now: the signature of the query
\* string is verified against the path and the rest of the query string of
\* the request
HasValidSignature(request, now) ==
    Verify(request.signature, "signed_url", now)
        = <<SignedPayload(request.url, request.qs)>>

----------------------------------------------------------------------------

(* The pipeline: actions *)

Start ==
    /\ run.pc = "pending"
    /\ run' = StartRun(run)
    /\ UNCHANGED <<cfg, inflight, routerVars>>

Enter ==
    /\ run.pc = "down"
    /\ run.idx <= Len(Chain(cfg))
    /\ run' = EnterStage(cfg, run)
    /\ UNCHANGED <<cfg, inflight, routerVars>>

Handler ==
    /\ run.pc = "down"
    /\ run.idx = Len(Chain(cfg)) + 1
    /\ run' = EnterHandler(cfg, run)
    /\ UNCHANGED <<cfg, inflight, routerVars>>

ErrorHandler ==
    /\ run.pc = "caught"
    /\ run' = HandleError(cfg, run)
    /\ UNCHANGED <<cfg, inflight, routerVars>>

Upstream ==
    /\ run.pc = "up"
    /\ run.frames # << >>
    /\ run' = ReturnUpstream(cfg, run)
    /\ UNCHANGED <<cfg, inflight, routerVars>>

Resolve ==
    /\ run.pc = "up"
    /\ run.frames = << >>
    /\ run' = Complete(run)
    /\ UNCHANGED <<cfg, inflight, routerVars>>

Rejected ==
    /\ run.pc = "rejected"
    /\ run' = Reject(run)
    /\ UNCHANGED <<cfg, inflight, routerVars>>

SeqsUpTo(S, n) == UNION {[1..k -> S] : k \in 0..n}

\* The requests considered: every chain of at most MaxStages middleware, cut
\* into the server's, the router's and the route's, with every handler and
\* error handler.
Config(kinds, a, b, h, e, x) ==
    [server       |-> SubSeq(kinds, 1, a),
     router       |-> SubSeq(kinds, a + 1, b),
     route        |-> SubSeq(kinds, b + 1, Len(kinds)),
     handler      |-> h,
     errorHandler |-> e,
     ctx          |-> x]

InitPipeline ==
    /\ \E kinds \in SeqsUpTo(MiddlewareKinds, MaxStages) :
       \E a \in 0..Len(kinds) :
       \E b \in a..Len(kinds) :
       \E h \in HandlerKinds, e \in ErrorHandlerKinds, x \in 1..NumContexts :
          cfg = Config(kinds, a, b, h, e, x)
    /\ run = NewRun
    /\ router = NewRouter
    /\ thrown = "none"
    /\ lastCall = "new"
    /\ calls = 0
    /\ commits = 0
    /\ snapshot = NoSnapshot
    /\ answered = << >>
    /\ inflight = NoRequests

NextPipeline ==
    \/ Start
    \/ Enter
    \/ Handler
    \/ ErrorHandler
    \/ Upstream
    \/ Resolve
    \/ Rejected

SpecPipeline == InitPipeline /\ [][NextPipeline]_vars

\* Every stage, the handler and the error handler of the requests considered
\* return or throw, and the event loop runs the continuation of every settled
\* await: a run that can take a step takes one.
SpecPipelineFair == SpecPipeline /\ WF_vars(NextPipeline)

----------------------------------------------------------------------------
(* The pipeline: requests handled at the same time *)

\* createHttpContext(request, response, resolver): a context of its own for
\* the request, numbered in the order of creation
CreateContext(st) == Len(st.contexts) + 1

\* (mutant) the stages are given the context created last
ContextCreatedLast(st, q) == Len(st.contexts)

\* pipeline.run(ctx): every stage, the handler and the error handler of the
\* run of request q are invoked with the context run() was given
ContextGiven(st, q) == st.requests[q].ctx

\* the pipeline of request q: the server's, with the context of the request
ConfigOf(st, q) == [cfg EXCEPT !.ctx = ContextGiven(st, q)]

\* what was done with a context by the part of a run's log from position
\* from on: one use by request q for every entry
Uses(q, log, from) == [i \in 1..(Len(log) - from) |-> [by |-> q, entry |-> log[from + i]]]

\* The server receives request q: it creates the context of the request and
\* runs the pipeline with it, up to the first stage.
Receive(q) ==
    /\ inflight.requests[q].ctx = 0
    /\ inflight' = [requests |-> [inflight.requests EXCEPT
                                     ![q] = [ctx |-> CreateContext(inflight),
                                             run |-> StartRun(NewRun)]],
                    contexts |-> Append(inflight.contexts, << >>)]
    /\ UNCHANGED <<cfg, run, routerVars>>

\* The run of request q goes on by one step, up to its next await, while the
\* other requests wait at theirs; what the step does, it does with the
\* context it was given.
Proceed(q, after) ==
    LET r == inflight.requests[q].run
        c == ConfigOf(inflight, q)
    IN  /\ inflight.requests[q].ctx # 0
        /\ inflight' =
               [requests |-> [inflight.requests EXCEPT ![q].run = after],
                contexts |-> [inflight.contexts EXCEPT
                                 ![c.ctx] = @ \o Uses(q, after.log, Len(r.log))]]
        /\ UNCHANGED <<cfg, run, routerVars>>

RequestEnter(q) ==
    LET r == inflight.requests[q].run
    IN  /\ inflight.requests[q].ctx # 0
        /\ r.pc = "down" /\ r.idx <= Len(Chain(cfg))
        /\ Proceed(q, EnterStage(ConfigOf(inflight, q), r))

RequestHandler(q) ==
    LET r == inflight.requests[q].run
    IN  /\ inflight.requests[q].ctx # 0
        /\ r.pc = "down" /\ r.idx = Len(Chain(cfg)) + 1
        /\ Proceed(q, EnterHandler(ConfigOf(inflight, q), r))

RequestErrorHandler(q) ==
    LET r == inflight.requests[q].run
    IN  /\ inflight.requests[q].ctx # 0
        /\ r.pc = "caught"
        /\ Proceed(q, HandleError(ConfigOf(inflight, q), r))

RequestUpstream(q) ==
    LET r == inflight.requests[q].run
    IN  /\ inflight.requests[q].ctx # 0
        /\ r.pc = "up" /\ r.frames # << >>
        /\ Proceed(q, ReturnUpstream(ConfigOf(inflight, q), r))

RequestResolve(q) ==
    LET r == inflight.requests[q].run
    IN  /\ inflight.requests[q].ctx # 0
        /\ r.pc = "up" /\ r.frames = << >>
        /\ Proceed(q, Complete(r))

RequestRejected(q) ==
    LET r == inflight.requests[q].run
    IN  /\ inflight.requests[q].ctx # 0
        /\ r.pc = "rejected"
        /\ Proceed(q, Reject(r))

\* a server with at most MaxInflightStages server middleware, a route handler
\* and an error handler, and no request received yet
InitInflight ==
    /\ \E kinds \in SeqsUpTo(MiddlewareKinds, MaxInflightStages) :
       \E h \in HandlerKinds, e \in ErrorHandlerKinds :
          cfg = Config(kinds, Len(kinds), Len(kinds), h, e, 0)
    /\ run = NewRun
    /\ router = NewRouter
    /\ thrown = "none"
    /\ lastCall = "new"
    /\ calls = 0
    /\ commits = 0
    /\ snapshot = NoSnapshot
    /\ answered = << >>
    /\ inflight = NoRequests

NextInflight ==
    \E q \in 1..NumRequests :
        \/ Receive(q)
        \/ RequestEnter(q)
        \/ RequestHandler(q)
        \/ RequestErrorHandler(q)
        \/ RequestUpstream(q)
        \/ RequestResolve(q)
        \/ RequestRejected(q)

SpecInflight == InitInflight /\ [][NextInflight]_vars

----------------------------------------------------------------------------
(* The router: actions *)

Blog == <<Static("blog"), Static("adonisjs"), Static("com")>>

Tenant == <<Param("tenant"), Static("adonisjs"), Static("com")>>

Users == <<Static("users")>>

User == <<Static("users"), Param("id")>>

UserBySlug == <<Static("users"), Param("slug")>>

\* the domains given to the routes registered, and asked of makeUrl
RouteDomains == {RootDomain, Blog, Tenant}

\* the routes get() is called for: a static and a param pattern, unnamed and
\* named, without a domain and under a parameterized one
GetRoutes ==
    {<<Users, NoName, RootDomain>>, <<User, <<"show">>, RootDomain>>,
     <<Users, NoName, Tenant>>, <<User, <<"show">>, Tenant>>}

\* a registration call returned, one of at most max: it is counted, and
\* raised nothing
RegisteredOf(max, st) ==
    /\ calls < max
    /\ router' = st
    /\ thrown' = "none"
    /\ lastCall' = "register"
    /\ calls' = calls + 1
    /\ UNCHANGED <<commits, snapshot, answered, pipelineVars>>

Registered(st) == RegisteredOf(MaxCalls, st)

RouteCall == Registered(RouteOp(router, UserBySlug, {"GET", "PUT"}, NoName, RootDomain))

AnyCall == Registered(AnyOp(router, Users, NoName, Blog))

GetCall ==
    \E route \in GetRoutes : Registered(GetOp(router, route[1], route[2], route[3]))

PostCall == Registered(PostOp(router, Users, NoName, RootDomain))

PutCall == Registered(PutOp(router, User, NoName, RootDomain))

PatchCall == Registered(PatchOp(router, User, NoName, RootDomain))

DeleteCall == Registered(DeleteOp(router, User, NoName, RootDomain))

GroupOpen == Registered(GroupOpenOp(router))

GroupClose ==
    /\ router.openedGroups # << >>
    /\ router' = GroupCloseOp(router)
    /\ thrown' = "none"
    /\ lastCall' = "register"
    /\ UNCHANGED <<calls, commits, snapshot, answered, pipelineVars>>

ResourceCall == Registered(ResourceOp(router, "posts"))

ShallowResourceCall == Registered(ShallowResourceOp(router, "posts"))

OnCall == \E bound \in BOOLEAN : Registered(OnOp(router, <<Static("docs")>>, bound))

UseCall == Registered(UseOp(router, <<"auth">>))

WhereCall == Registered(WhereOp(router, "id", "number"))

CommitCall ==
    /\ commits < MaxCommits
    /\ router' = Commit(router).router
    /\ thrown' = Commit(router).thrown
    /\ lastCall' = "commit"
    /\ commits' = commits + 1
    /\ snapshot' = IF ~snapshot.taken /\ thrown' = "none"
                   THEN [store |-> router'.store, lookup |-> router'.lookup,
                         usingDomains |-> router'.usingDomains, taken |-> TRUE]
                   ELSE snapshot
    /\ UNCHANGED <<calls, answered, pipelineVars>>

\* the requests match() is called for
MatchRequests ==
    {[url |-> <<"/", "users">>, method |-> "GET", hostname |-> NoHost],
     [url |-> <<"/", "users", "/", "1">>, method |-> "GET", hostname |-> NoHost],
     [url |-> <<"/", "users">>, method |-> "GET",
      hostname |-> <<<<"blog">>, <<"adonisjs">>, <<"com">>>>]}

Answer(store, request, result, after) ==
    [store |-> store, request |-> request, result |-> result, after |-> after]

\* router.match(url, method, hostname) is called and returns; the server
\* matches requests once it is booted, which commits the routes
MatchCall ==
    \E request \in MatchRequests :
        LET call == MatchOp(router, request.url, request.method, request.hostname)
            answer == Answer(router.store, request, call.result, call.router.store)
        IN  /\ router.commited
            /\ Len(answered) < MaxMatches
            /\ router' = call.router
            /\ answered' = Append(answered, answer)
            /\ thrown' = "none"
            /\ lastCall' = "match"
            /\ UNCHANGED <<calls, commits, snapshot, pipelineVars>>

\* a router is registered with and committed while no request is running
InitRouter ==
    /\ cfg = Config(<< >>, 0, 0, "return", "respond", 1)
    /\ run = NewRun
    /\ router = NewRouter
    /\ thrown = "none"
    /\ lastCall = "new"
    /\ calls = 0
    /\ commits = 0
    /\ snapshot = NoSnapshot
    /\ answered = << >>
    /\ inflight = NoRequests

NextRouter ==
    \/ RouteCall
    \/ AnyCall
    \/ GetCall
    \/ PostCall
    \/ PutCall
    \/ PatchCall
    \/ DeleteCall
    \/ GroupOpen
    \/ GroupClose
    \/ ResourceCall
    \/ ShallowResourceCall
    \/ OnCall
    \/ UseCall
    \/ WhereCall
    \/ CommitCall

SpecRouter == InitRouter /\ [][NextRouter]_vars

\* the matchers given to a route
Matchers == {"number", "any"}

GetWhereCall ==
    \E matcher \in Matchers :
        Registered(GetWhereOp(router, User, NoName, RootDomain, "id", matcher))

UseManyCall == Registered(UseOp(router, <<"log", "acl">>))

\* a router whose routes are registered with matchers and middleware of the
\* router and of their own, and committed
NextGlobals ==
    \/ GetCall
    \/ GetWhereCall
    \/ WhereCall
    \/ UseCall
    \/ UseManyCall
    \/ CommitCall

SpecGlobals == InitRouter /\ [][NextGlobals]_vars

\* the calls made inside and outside of group callbacks
NestedGroupOpen == RegisteredOf(MaxGroupCalls, GroupOpenOp(router))

NestedGetCall == RegisteredOf(MaxGroupCalls, GetOp(router, Users, NoName, RootDomain))

NestedResourceCall == RegisteredOf(MaxGroupCalls, ResourceOp(router, "posts"))

NestedOnCall == RegisteredOf(MaxGroupCalls, OnOp(router, <<Static("docs")>>, TRUE))

\* a router whose routes are registered in nested groups
NextGroups ==
    \/ NestedGroupOpen
    \/ GroupClose
    \/ NestedGetCall
    \/ NestedResourceCall
    \/ NestedOnCall
    \/ CommitCall

SpecGroups == InitRouter /\ [][NextGroups]_vars

\* group(callback) is called with a callback that throws before it registers
\* anything; the caller catches the error
GroupRaisesCall ==
    /\ calls < MaxGroupCalls
    /\ router' = GroupThrowOp(router)
    /\ thrown' = "CallbackError"
    /\ lastCall' = "group"
    /\ calls' = calls + 1
    /\ UNCHANGED <<commits, snapshot, answered, pipelineVars>>

\* a router whose group callbacks all throw, and that is registered with
\* after them
NextGroupFault ==
    \/ GroupRaisesCall
    \/ NestedGetCall
    \/ NestedResourceCall
    \/ NestedOnCall
    \/ CommitCall

SpecGroupFault == InitRouter /\ [][NextGroupFault]_vars

\* one call of each registration method, each for a path of its own: /get for
\* get(), /post for post(), ..., /route for route() with the methods GET and PUT
PathOf(word) == <<Static(word)>>

MethodGetCall == Registered(GetOp(router, PathOf("get"), NoName, RootDomain))

MethodPostCall == Registered(PostOp(router, PathOf("post"), NoName, RootDomain))

MethodPutCall == Registered(PutOp(router, PathOf("put"), NoName, RootDomain))

MethodPatchCall == Registered(PatchOp(router, PathOf("patch"), NoName, RootDomain))

MethodDeleteCall == Registered(DeleteOp(router, PathOf("delete"), NoName, RootDomain))

MethodAnyCall == Registered(AnyOp(router, PathOf("any"), NoName, RootDomain))

MethodRouteCall ==
    Registered(RouteOp(router, PathOf("route"), {"GET", "PUT"}, NoName, RootDomain))

\* a router that is registered with through every method, and committed
NextMethods ==
    \/ MethodGetCall
    \/ MethodPostCall
    \/ MethodPutCall
    \/ MethodPatchCall
    \/ MethodDeleteCall
    \/ MethodAnyCall
    \/ MethodRouteCall
    \/ CommitCall

SpecMethods == InitRouter /\ [][NextMethods]_vars

\* a router that is registered with, committed and asked to match requests
NextMatch ==
    \/ AnyCall
    \/ GetCall
    \/ CommitCall
    \/ MatchCall

SpecMatch == InitRouter /\ [][NextMatch]_vars


----------------------------------------------------------------------------
(* Reading a run's log *)

StageLevels == {"server", "router", "route"}

\* the kind of the middleware a label names, read from the configuration
KindOf(c, label) ==
    CASE label.level = "server" -> c.server[label.pos]
      [] label.level = "router" -> c.router[label.pos]
      [] label.level = "route"  -> c.route[label.pos]

IsStageEntry(e)   == e.ev = "enter" /\ e.at.level \in StageLevels
IsHandlerEntry(e) == e.ev = "enter" /\ e.at = HandlerLabel
IsErrorEntry(e)   == e.ev = "enter" /\ e.at = ErrorHandlerLabel
IsPostEntry(e)    == e.ev = "post"

\* the middleware and the handler entered, in the order of their entry
Entered(log) == SelectSeq(log, LAMBDA e : IsStageEntry(e) \/ IsHandlerEntry(e))

\* the code after next() that ran, in the order it ran
PostCode(log) == SelectSeq(log, LAMBDA e : IsPostEntry(e))

LevelEntries(level, kinds) ==
    [i \in 1..Len(kinds) |-> LogEntry("enter", [level |-> level, pos |-> i])]

\* every middleware of the request in registration order, server first
StageEntries(c) ==
    LevelEntries("server", c.server) \o LevelEntries("router", c.router)
        \o LevelEntries("route", c.route)

Reverse(s) == [i \in 1..Len(s) |-> s[Len(s) + 1 - i]]

IsPrefix(s, t) == Len(s) <= Len(t) /\ SubSeq(t, 1, Len(s)) = s

\* the code after next() of the given entered stages, innermost first
PostOf(c, entries) ==
    Reverse([i \in 1..Len(SelectSeq(entries, LAMBDA e : KindOf(c, e.at) = "wrap")) |->
        LogEntry("post", SelectSeq(entries, LAMBDA e : KindOf(c, e.at) = "wrap")[i].at)])

AllKinds(c) == c.server \o c.router \o c.route

EveryStageCallsNext(c) == \A i \in 1..Len(AllKinds(c)) : AllKinds(c)[i] \in {"pass", "wrap"}

\* a middleware or the handler that throws was entered
RaiserEntered(c, log) ==
    \E k \in 1..Len(log) :
        \/ IsStageEntry(log[k]) /\ KindOf(c, log[k].at) = "raise"
        \/ IsHandlerEntry(log[k]) /\ c.handler = "raise"

\* the position in the log of the entry of the stage that threw
RaiserIndex(c, log) ==
    CHOOSE k \in 1..Len(log) :
        \/ IsStageEntry(log[k]) /\ KindOf(c, log[k].at) = "raise"
        \/ IsHandlerEntry(log[k]) /\ c.handler = "raise"

Done == run.pc = "done"

----------------------------------------------------------------------------
(* Claims about the pipeline, checked under SpecPipeline *)

\* C1: in a run where every middleware calls next(), the stages are entered in
\* the order server middleware, router middleware, route middleware (each list
\* in registration order), then the handler, each exactly once: at every moment
\* the stages entered so far are a prefix of that order, and a finished run has
\* entered all of them.
C1_EntryOrder ==
    EveryStageCallsNext(cfg) =>
        /\ IsPrefix(Entered(run.log), StageEntries(cfg) \o <<LogEntry("enter", HandlerLabel)>>)
        /\ Done => Entered(run.log) = StageEntries(cfg) \o <<LogEntry("enter", HandlerLabel)>>

C1_Witness ==
    /\ Done
    /\ EveryStageCallsNext(cfg)
    /\ Len(cfg.server) = 2 /\ Len(cfg.route) = 1
    /\ Len(Entered(run.log)) = 4

\* C2: once a middleware has returned without calling next(), no later
\* middleware and not the handler is entered, the error handler is not
\* invoked, and the run completes normally with the response that middleware
\* wrote.
C2_ShortCircuit ==
    \A k \in 1..Len(run.log) :
        (IsStageEntry(run.log[k]) /\ KindOf(cfg, run.log[k].at) = "terminate") =>
            /\ \A j \in (k + 1)..Len(run.log) : IsPostEntry(run.log[j])
            /\ run.ehCalls = << >>
            /\ run.response = SentResponse(run.log[k].at)
            /\ run.pc \in {"up", "done"}
            /\ Done => run.outcome = "completed"

C2_Witness ==
    /\ Done
    /\ Len(cfg.server) = 2 /\ Len(cfg.route) = 1
    /\ cfg.server[1] = "terminate"
    /\ Len(run.log) = 1

\* whether the request is the chain [A, B] with A calling next() and B throwing
TwoStagesSecondRaises(c) ==
    /\ Len(AllKinds(c)) = 2
    /\ AllKinds(c)[1] \in {"pass", "wrap"}
    /\ AllKinds(c)[2] = "raise"

\* C3 as stated: given [A, B] where B raises, the stages entered are [A, B],
\* the handler is never entered, A's code after next() never runs and the
\* error handler receives exactly the error B raised.
C3_PostCodeSkipped ==
    (Done /\ TwoStagesSecondRaises(cfg)) =>
        /\ Entered(run.log) = StageEntries(cfg)
        /\ PostCode(run.log) = << >>
        /\ run.ehCalls = <<[error |-> ErrorOf(StageEntries(cfg)[2].at), ctx |-> cfg.ctx]>>

\* C3 amended: given [A, B] where B raises, the stages entered are [A, B], the
\* handler is never entered, the error handler receives exactly the error B
\* raised, and once the error handler has returned A's code after next() runs:
\* the log is A, B, error handler, A's code after next().
C3_PostCodeRuns ==
    (Done /\ TwoStagesSecondRaises(cfg)) =>
        /\ Entered(run.log) = StageEntries(cfg)
        /\ run.ehCalls = <<[error |-> ErrorOf(StageEntries(cfg)[2].at), ctx |-> cfg.ctx]>>
        /\ (AllKinds(cfg)[1] = "wrap" /\ cfg.errorHandler = "respond") =>
               run.log = StageEntries(cfg)
                             \o <<LogEntry("enter", ErrorHandlerLabel),
                                  LogEntry("post", StageEntries(cfg)[1].at)>>

C3_Witness ==
    /\ Done
    /\ TwoStagesSecondRaises(cfg)
    /\ AllKinds(cfg)[1] = "wrap"
    /\ cfg.errorHandler = "respond"
    /\ Len(run.log) = 4
    /\ IsPostEntry(run.log[4])

\* C4: when a middleware or the handler raises and the error handler returns,
\* the error handler is invoked right after the raising stage was entered, and
\* after it the code after next() of every stage entered before the raising
\* one that awaited next() runs, innermost first, and nothing else.
C4_UpstreamAfterErrorHandler ==
    (Done /\ RaiserEntered(cfg, run.log) /\ cfg.errorHandler = "respond") =>
        LET k == RaiserIndex(cfg, run.log)
        IN  /\ Len(run.log) > k
            /\ IsErrorEntry(run.log[k + 1])
            /\ \A j \in 1..k : IsStageEntry(run.log[j]) \/ IsHandlerEntry(run.log[j])
            /\ SubSeq(run.log, k + 2, Len(run.log))
                   = PostOf(cfg, SubSeq(run.log, 1, k - 1))

C4_Witness ==
    /\ Done
    /\ cfg.errorHandler = "respond"
    /\ cfg.handler = "raise"
    /\ Len(cfg.server) = 2 /\ Len(cfg.route) = 1
    /\ \A i \in 1..3 : AllKinds(cfg)[i] = "wrap"
    /\ Len(PostCode(run.log)) = 3

\* C5: when every middleware calls next() and nothing raises, the code after
\* next() of a stage runs only after every stage after it and the handler
\* have been entered and every later stage's own code after next() has run; a
\* finished run logs the entries in registration order, the handler, then the
\* code after next() in the reverse of registration order.
C5_OnionOrder ==
    (EveryStageCallsNext(cfg) /\ cfg.handler # "raise") =>
        /\ IsPrefix(run.log, StageEntries(cfg) \o <<LogEntry("enter", HandlerLabel)>>
                                 \o PostOf(cfg, StageEntries(cfg)))
        /\ Done => run.log = StageEntries(cfg) \o <<LogEntry("enter", HandlerLabel)>>
                                 \o PostOf(cfg, StageEntries(cfg))

C5_Witness ==
    /\ Done
    /\ cfg.handler = "return"
    /\ Len(AllKinds(cfg)) = 3
    /\ \A i \in 1..3 : AllKinds(cfg)[i] = "wrap"
    /\ Len(PostCode(run.log)) = 3
    /\ PostCode(run.log)[1].at = StageEntries(cfg)[3].at

\* C6: once a middleware that raises has been entered, no middleware
\* registered after it and not the handler is entered in that run.
C6_NothingDownstreamOfRaise ==
    \A k \in 1..Len(run.log) :
        (IsStageEntry(run.log[k]) /\ KindOf(cfg, run.log[k].at) = "raise") =>
            \A j \in (k + 1)..Len(run.log) :
                ~IsStageEntry(run.log[j]) /\ ~IsHandlerEntry(run.log[j])

C6_Witness ==
    /\ Done
    /\ cfg.errorHandler = "respond"
    /\ Len(cfg.server) = 2 /\ Len(cfg.route) = 1
    /\ cfg.server[1] = "raise"
    /\ Len(Entered(run.log)) = 1

\* the error of the stage that threw, read from the log
RaisedError(c, log) == ErrorOf(log[RaiserIndex(c, log)].at)

\* C7: in a finished run in which a middleware (of the server, of the router
\* or of the route) or the handler raised, the error handler was invoked
\* exactly once, with the raised error and the request's context; in a run
\* where nothing raised it was never invoked; and it is never invoked more
\* than once.
C7_ErrorHandlerOnce ==
    /\ Len(run.ehCalls) <= 1
    /\ ~RaiserEntered(cfg, run.log) => run.ehCalls = << >>
    /\ (Done /\ RaiserEntered(cfg, run.log)) =>
           run.ehCalls = <<[error |-> RaisedError(cfg, run.log), ctx |-> cfg.ctx]>>

C7_Witness ==
    /\ Done
    /\ Len(cfg.server) = 1 /\ Len(cfg.router) = 1 /\ Len(cfg.route) = 1
    /\ cfg.route[1] = "raise"
    /\ Len(run.ehCalls) = 1
    /\ run.ehCalls[1].error = ErrorOf([level |-> "route", pos |-> 1])

\* C8: when the error handler itself raises while handling the error of a
\* stage, the run ends faulted and the response is the 500 response carrying
\* the error handler's error, not the stage's.
C8_ErrorHandlerFailure ==
    (Done /\ RaiserEntered(cfg, run.log) /\ cfg.errorHandler = "raise") =>
        /\ run.outcome = "faulted"
        /\ run.error = ErrorOf(ErrorHandlerLabel)
        /\ run.response = [status |-> 500, body |-> "message", by |-> ErrorHandlerLabel]

C8_Witness ==
    /\ Done
    /\ AllKinds(cfg) = << >>
    /\ cfg.handler = "raise"
    /\ cfg.errorHandler = "raise"
    /\ run.response.by = ErrorHandlerLabel

\* a response was written explicitly during the run: by a middleware that
\* answers without calling next(), by a handler that calls response.send, or
\* by the error handler
ExplicitlyWritten(c, log) ==
    \E k \in 1..Len(log) :
        \/ IsStageEntry(log[k]) /\ KindOf(c, log[k].at) = "terminate"
        \/ IsHandlerEntry(log[k]) /\ c.handler = "send"
        \/ IsErrorEntry(log[k])

\* C18: in a finished run the response body is the handler's return value if
\* and only if the handler returned and no response was written explicitly
\* during the run, whether the middleware return the result of next() or only
\* await it; when the handler called response.send the body it sent is kept,
\* and when a middleware answered the body is the middleware's.
C18_ReturnValueBody ==
    Done =>
        /\ run.response = ReturnValueResponse
               <=> (run.returned /\ ~ExplicitlyWritten(cfg, run.log))
        /\ (run.returned /\ cfg.handler = "send") => run.response = SentResponse(HandlerLabel)
        /\ (run.returned /\ cfg.handler = "return") => run.response = ReturnValueResponse
        /\ \A k \in 1..Len(run.log) :
               (IsStageEntry(run.log[k]) /\ KindOf(cfg, run.log[k].at) = "terminate")
                   => run.response = SentResponse(run.log[k].at)

\* behind a server middleware that awaits next() without returning its result
\* and a route middleware that returns it, the handler sent a body and
\* returned a value: the body sent is the response
C18_Witness ==
    /\ Done
    /\ cfg.server = <<"wrap">> /\ cfg.router = << >> /\ cfg.route = <<"pass">>
    /\ cfg.handler = "send"
    /\ run.returned
    /\ run.response = SentResponse(HandlerLabel)

----------------------------------------------------------------------------
(* Claims about the router, checked under SpecRouter *)

\* the requests and the URL-building calls the router is asked about
Words(words) == [i \in 1..Len(words) |-> <<words[i]>>]

Urls ==
    {MakePath(Words(words)) :
        words \in {<<"users">>, <<"users", "1">>, <<"posts", "create">>}}

\* the methods of the requests
RequestMethods == {"GET", "POST"}

Hosts ==
    {NoHost, Words(<<"blog", "adonisjs", "com">>), Words(<<"shop", "adonisjs", "com">>),
     Words(<<"adonisjs", "org">>)}

UrlNames == {<<"show">>, <<"posts", "show">>, <<"posts", "index">>, <<"missing">>}

UrlParams == {NoParams, <<<<"id", <<"1">>>>>>}

\* C9: commit() is idempotent: once the first commit() call has returned
\* without raising, the router stays committed and the routes store, the name
\* lookup index and usingDomains stay exactly as that call left them, through
\* every later commit() call and every registration call made in between.
C9_CommitIdempotent ==
    snapshot.taken =>
        /\ router.commited
        /\ router.store = snapshot.store
        /\ router.lookup = snapshot.lookup
        /\ router.usingDomains = snapshot.usingDomains

\* a second commit() has returned, after a commit() that stored routes and a
\* registration call made in between (which put an entity into routes)
C9_Witness ==
    /\ lastCall = "commit"
    /\ commits = 2
    /\ thrown = "none"
    /\ snapshot.taken
    /\ router.store # << >>
    /\ router.routes # << >>

\* C10: once the routes are committed, no registration call and no commit()
\* call changes the result of match(url, method, hostname) or of
\* makeUrl(name, params, {domain}) for any input.
C10_FrozenAfterCommit ==
    [][router.commited =>
          /\ \A url \in Urls, method \in RequestMethods, hostname \in Hosts :
                 Match(router', url, method, hostname) = Match(router, url, method, hostname)
          /\ \A name \in UrlNames, params \in UrlParams, domain \in RouteDomains :
                 MakeUrl(router', name, params, domain) = MakeUrl(router, name, params, domain)
      ]_vars

\* after a commit that stored a named GET route, a route was registered and
\* commit() was called again: match and makeUrl still answer from the store
C10_Witness ==
    /\ router.commited
    /\ lastCall = "commit"
    /\ commits = 2
    /\ router.routes # << >>
    /\ Match(router, MakePath(Words(<<"users", "1">>)), "GET", NoHost).found
    /\ MakeUrl(router, <<"show">>, <<<<"id", <<"1">>>>>>, RootDomain).error = "none"

\* C11: after commit(), every registration call is a no-op: it leaves the
\* router's state unchanged, including the public routes collection, which
\* stays empty as commit() left it. (The code checks the commited flag in
\* commit() only: a registration call made after commit() still creates its
\* entity and pushes it to routes, use() still adds to the middleware and
\* where() to the global matchers.)
C11_RegistrationNoOpAfterCommit ==
    [][(router.commited /\ lastCall' = "register") =>
          /\ router'.routes = router.routes
          /\ router'.routes = << >>
          /\ router'.middleware = router.middleware
          /\ router'.globalMatchers = router.globalMatchers
          /\ router'.store = router.store
          /\ router'.lookup = router.lookup
          /\ router'.usingDomains = router.usingDomains
          /\ router'.commited = router.commited
      ]_vars

\* two routes of a flat list have the same non-empty name and the same domain
HasDuplicateName(list) ==
    \E i, j \in 1..Len(list) :
        /\ i < j
        /\ list[i].name # NoName
        /\ list[i].name = list[j].name
        /\ list[i].domain = list[j].domain

\* C12: a commit() call on a router not yet committed raises the
\* duplicate-route-name error if and only if two of the flattened routes have
\* the same non-empty name and the same domain; the same name under two
\* domains, and unnamed routes, do not make it fail.
C12_DuplicateName ==
    [][(lastCall' = "commit" /\ ~router.commited) =>
          (thrown' = "DuplicateRouteName"
               <=> HasDuplicateName(ToRoutesJSON(router.heap, router.routes)))
      ]_vars

\* commit() has raised on two routes named alike in one domain
C12_Witness ==
    /\ lastCall = "commit"
    /\ thrown = "DuplicateRouteName"
    /\ ~router.commited
    /\ HasDuplicateName(ToRoutesJSON(router.heap, router.routes))

\* a url no route of the model has
Unregistered == MakePath(Words(<<"missing">>))

\* the domain-less routes of the store whose pattern matches the url
RootRoutesOfPath(store, url) ==
    LET segments == PathSegments(url)
    IN  {i \in 1..Len(store) :
            store[i].domain = RootDomain /\ Matches(store[i].pattern, segments)}

\* the url has domain-less routes, none of them for the method
OnlyOtherMethods(store, url, method) ==
    /\ RootRoutesOfPath(store, url) # {}
    /\ \A i \in RootRoutesOfPath(store, url) : method \notin store[i].methods

SomeRouteMatches(store, url, method, hostname) ==
    LET segments == PathSegments(url)
    IN  \E i \in 1..Len(store) :
            /\ method \in store[i].methods
            /\ Matches(store[i].pattern, segments)
            /\ store[i].domain = RootDomain \/ Matches(store[i].domain, hostname)

\* what match() returns for a route of the store
IsMatchedRoute(store, m) ==
    /\ m.found
    /\ \E i \in 1..Len(store) : store[i] = m.route

\* C14: match() never raises: in every state of the router, before commit()
\* and after, for every url, method and hostname (also none, and one that
\* matches no registered domain), it returns null or a route of the store, and
\* it returns null when no route of the store matches the request.
C14_NoRouteIsNull ==
    \A url \in Urls, method \in RequestMethods, hostname \in Hosts :
        LET m == Match(router, url, method, hostname)
        IN  /\ m = NoMatch \/ IsMatchedRoute(router.store, m)
            /\ ~SomeRouteMatches(router.store, url, method, hostname) => m = NoMatch

\* routes of a domain are committed and a request for a host of no registered
\* domain, with a url that only a route of that domain has, got null; so did a
\* request made before commit()
C14_Witness ==
    /\ router.commited
    /\ router.usingDomains
    /\ \E i \in 1..Len(router.store) :
           /\ router.store[i].domain = Blog
           /\ router.store[i].pattern = Users
    /\ ~SomeRouteMatches(router.store, MakePath(Words(<<"users">>)), "GET",
                         Words(<<"adonisjs", "org">>))
    /\ Match(router, MakePath(Words(<<"users">>)), "GET", Words(<<"adonisjs", "org">>)) = NoMatch
    /\ Match(NewRouter, MakePath(Words(<<"users">>)), "GET", NoHost) = NoMatch

\* a route without params and without a domain
IsStaticRoute(route) ==
    /\ route.domain = RootDomain
    /\ \A k \in 1..Len(route.pattern) : route.pattern[k].type = "static"

\* the store holds static routes only, no two of them with the same path and
\* a method in common
StaticStore(store) ==
    /\ \A i \in 1..Len(store) : IsStaticRoute(store[i])
    /\ \A i, j \in 1..Len(store) :
           i # j => \/ store[i].pattern # store[j].pattern
                    \/ store[i].methods \cap store[j].methods = {}

\* the path a static pattern stands for
LiteralPath(pattern) == MakePath([k \in 1..Len(pattern) |-> pattern[k].val])

\* C15: for a committed set of static routes with pairwise different (path,
\* method), match(path, method) returns a given route if and only if the path
\* is the route's pattern and the method is one of the route's methods,
\* whatever the order in which the routes were registered.
C15_StaticMatch ==
    (router.commited /\ StaticStore(router.store)) =>
        \A i \in 1..Len(router.store), url \in Urls, method \in RequestMethods :
            LET m == Match(router, url, method, NoHost)
            IN  (m.found /\ m.route = router.store[i])
                    <=> (/\ url = LiteralPath(router.store[i].pattern)
                         /\ method \in router.store[i].methods)

\* POST /users was registered before GET /users: GET /users is answered by the
\* second route of the store, POST /users by the first
C15_Witness ==
    /\ router.commited
    /\ StaticStore(router.store)
    /\ Len(router.store) = 2
    /\ router.store[1].methods = {"POST"}
    /\ router.store[2].methods = {"GET", "HEAD"}
    /\ router.store[1].pattern = Users /\ router.store[2].pattern = Users
    /\ Match(router, LiteralPath(Users), "GET", NoHost).route = router.store[2]
    /\ Match(router, LiteralPath(Users), "POST", NoHost).route = router.store[1]

\* the param values the round trip is tried with: plain ones, one that is the
\* literal segment of another route, and ones with characters that need
\* percent-encoding, alone and next to others
ParamValues ==
    {<<"1">>, <<"create">>, <<" ">>, <<"/">>, <<"%">>, <<"1", " ">>, <<"/", "1">>,
     <<"%", "2">>, <<"%", "2", "0">>, <<"1", "/", " ">>}

\* the mapping that gives the value to every param of the pattern
Supplied(pattern, value) == Captured(pattern, [k \in 1..Len(pattern) |-> value])

\* a named domain-less route whose pattern has params
IsNamedParamRoute(route) ==
    /\ route.name # NoName
    /\ route.domain = RootDomain
    /\ \E k \in 1..Len(route.pattern) : route.pattern[k].type = "param"

\* another domain-less route of the store also matches the url under the method
OtherRouteMatches(store, route, url, method) ==
    LET segments == PathSegments(url)
    IN  \E j \in 1..Len(store) :
            /\ store[j] # route
            /\ store[j].domain = RootDomain
            /\ method \in store[j].methods
            /\ RouteMatches(store[j], segments)

SatisfiesMatchers(route, value) ==
    \A k \in 1..Len(route.pattern), w \in route.matchers :
        (route.pattern[k].type = "param" /\ route.pattern[k].name = w[1])
            => Satisfies(w[2], value)

QueryStrings == {<< >>, <<<<"site", "1">>, <<"db", "pg">>, <<"dbUser", "1">>>>}

\* how long a signed url is made to last
ExpiresIns == {NoExpiry} \cup {<<n>> : n \in 1..MaxExpiresIn}

\* the moments a signed url made at time 0 is requested at
RequestTimes == 0..(MaxExpiresIn + 1)

\* the request of a signed url as it was made
RequestOf(signed) == [url |-> signed.url, qs |-> signed.qs, signature |-> signed.signature]

\* the urls that differ from the url in one path segment
AlteredUrls(url) ==
    LET segments == PathSegments(url)
    IN  {MakePath([segments EXCEPT ![k] = segment]) :
            k \in 1..Len(segments), segment \in {<<"2">>, <<"admin">>}} \ {url}

\* C17: a url made by makeSignedUrl(name, params, options), with or without a
\* query string, has a valid signature when it is requested unchanged before
\* its expiry (any time when it has none); it has no valid signature after its
\* expiry, or when a segment of its path was altered, and the verification
\* then answers false.
C17_SignedUrl ==
    router.commited =>
        \A i \in 1..Len(router.lookup), qs \in QueryStrings, expiresIn \in ExpiresIns :
            (router.lookup[i].name # NoName /\ router.lookup[i].domain = RootDomain) =>
                LET route  == router.lookup[i]
                    signed == MakeSignedUrl(router, route.name,
                                            Supplied(route.pattern, <<"1">>),
                                            [domain |-> RootDomain, qs |-> qs,
                                             expiresIn |-> expiresIn], 0)
                    request == RequestOf(signed)
                    altered == AlteredUrls(signed.url)
                IN  /\ signed.error = "none"
                    /\ \A now \in RequestTimes :
                           /\ (expiresIn = NoExpiry \/ now < expiresIn[1])
                                  => HasValidSignature(request, now) = TRUE
                           /\ (expiresIn # NoExpiry /\ now > expiresIn[1])
                                  => HasValidSignature(request, now) = FALSE
                           /\ \A url \in altered :
                                  HasValidSignature([request EXCEPT !.url = url], now) = FALSE

\* the named route GET /users/:id is committed; its signed url with a query
\* string, made to last one tick, is valid at once and no longer at time 2
C17_Witness ==
    /\ router.commited
    /\ LET signed == MakeSignedUrl(router, <<"show">>, <<<<"id", <<"1">>>>>>,
                                   [domain |-> RootDomain,
                                    qs |-> <<<<"site", "1">>, <<"db", "pg">>, <<"dbUser", "1">>>>,
                                    expiresIn |-> <<1>>], 0)
       IN  /\ signed.error = "none"
           /\ signed.url = MakePath(Words(<<"users", "1">>))
           /\ HasValidSignature(RequestOf(signed), 0)
           /\ ~HasValidSignature(RequestOf(signed), 2)

\* the positions of the routes of a domain that have the method and match the url
Candidates(store, domain, url, method) ==
    LET segments == PathSegments(url)
    IN  {i \in 1..Len(store) :
            /\ store[i].domain = domain
            /\ method \in store[i].methods
            /\ RouteMatches(store[i], segments)}

\* the domains of the routes of the store that the hostname matches
DomainsOfHost(store, hostname) ==
    {store[i].domain : i \in {j \in 1..Len(store) :
        store[j].domain # RootDomain /\ Matches(store[j].domain, hostname)}}

\* C19: the scope match() looks in is the registered domain the hostname
\* resolves to, and the domain-less routes when there is no hostname or it
\* matches no registered domain: the route returned is the first candidate of
\* that scope, and null is returned when the scope has none, whatever routes
\* the other scopes have.
C19_DomainScope ==
    router.commited =>
        \A hostname \in Hosts :
            LET scope == MatchDomain(router.store, hostname)
            IN  /\ (hostname = NoHost \/ DomainsOfHost(router.store, hostname) = {})
                       => scope = RootDomain
                /\ (hostname # NoHost /\ DomainsOfHost(router.store, hostname) # {})
                       => scope \in DomainsOfHost(router.store, hostname)
                /\ \A url \in Urls, method \in RequestMethods :
                       LET m     == Match(router, url, method, hostname)
                           cands == Candidates(router.store, scope, url, method)
                       IN  IF cands = {}
                           THEN m = NoMatch
                           ELSE /\ m.found
                                /\ m.route = router.store[CHOOSE i \in cands : \A j \in cands : i <= j]

\* GET /users is committed under :tenant.adonisjs.com only: it is matched for
\* the host blog.adonisjs.com, with blog as the tenant, and a request without
\* a hostname gets null
C19_Witness ==
    /\ router.commited
    /\ Len(router.store) = 1
    /\ router.store[1].domain = Tenant
    /\ router.store[1].pattern = Users
    /\ Match(router, LiteralPath(Users), "GET", Words(<<"blog", "adonisjs", "com">>)).found
    /\ Match(router, LiteralPath(Users), "GET", Words(<<"blog", "adonisjs", "com">>)).subdomains
           = <<<<"tenant", <<"blog">>>>>>
    /\ Match(router, LiteralPath(Users), "GET", NoHost) = NoMatch

\* C20 as stated: for every hostname, also one that resolves to a registered
\* domain, if no route of the resolved domain matches (url, method) then a
\* domain-less route that matches (url, method) is returned by match().
C20_RootMatchesAnyHost ==
    router.commited =>
        \A hostname \in Hosts, url \in Urls, method \in RequestMethods :
            LET scope == MatchDomain(router.store, hostname)
                roots == Candidates(router.store, RootDomain, url, method)
            IN  ((scope = RootDomain \/ Candidates(router.store, scope, url, method) = {})
                      /\ roots # {})
                    => LET m == Match(router, url, method, hostname)
                       IN  m.found /\ m.route.domain = RootDomain

\* C20 amended: a route without a domain is matched for every request without
\* a hostname and for every hostname that resolves to no registered domain;
\* for a hostname that resolves to a registered domain only the routes of
\* that domain are tried, and when none of them matches (url, method) match()
\* returns null, also when a domain-less route matches (url, method).
C20_RootMatchesUnclaimedHosts ==
    router.commited =>
        \A hostname \in Hosts, url \in Urls, method \in RequestMethods :
            LET scope == MatchDomain(router.store, hostname)
                roots == Candidates(router.store, RootDomain, url, method)
                m     == Match(router, url, method, hostname)
            IN  roots # {} =>
                    /\ scope = RootDomain => (m.found /\ m.route.domain = RootDomain)
                    /\ (scope # RootDomain /\ Candidates(router.store, scope, url, method) = {})
                           => m = NoMatch

\* /users is committed under blog.adonisjs.com and GET /users/:id without a
\* domain: GET /users/1 gets null for the host blog.adonisjs.com and the
\* domain-less route for the host adonisjs.org
C20_Witness ==
    /\ router.commited
    /\ \E i \in 1..Len(router.store) : router.store[i].domain = Blog
    /\ Candidates(router.store, Blog, MakePath(Words(<<"users", "1">>)), "GET") = {}
    /\ Candidates(router.store, RootDomain, MakePath(Words(<<"users", "1">>)), "GET") # {}
    /\ Match(router, MakePath(Words(<<"users", "1">>)), "GET",
             Words(<<"blog", "adonisjs", "com">>)) = NoMatch
    /\ Match(router, MakePath(Words(<<"users", "1">>)), "GET",
             Words(<<"adonisjs", "org">>)).found

\* the positions in the lookup index of the routes of a name in a domain
\* namespace
NamedIn(lookup, name, domain) ==
    {i \in 1..Len(lookup) : lookup[i].name = name /\ lookup[i].domain = domain}

\* a param of the pattern has no value in the params
LacksParam(pattern, params) ==
    \E k \in 1..Len(pattern) :
        /\ pattern[k].type = "param"
        /\ \A p \in 1..Len(params) : params[p][1] # pattern[k].name

EffectiveMatcher(globalMatchers, own, param) ==
    IF \E w \in own : w[1] = param
    THEN (CHOOSE w \in own : w[1] = param)[2]
    ELSE IF \E g \in globalMatchers : g[1] = param
         THEN (CHOOSE g \in globalMatchers : g[1] = param)[2]
         ELSE "any"

\* the value the path gives to a param of the pattern fails the matcher in
\* force for it
FailsMatcher(globalMatchers, route, segments) ==
    \E k \in 1..Len(route.pattern) :
        /\ route.pattern[k].type = "param"
        /\ ~Satisfies(EffectiveMatcher(globalMatchers, route.matchers, route.pattern[k].name),
                      segments[k])

MatcherUrls == {MakePath(Words(<<"users", "1">>)), MakePath(Words(<<"users", "create">>))}

\* C23: a matcher defined with router.where(param, matcher) constrains the
\* param on every route committed, whether registered before or after the
\* where() call, except on a route with a matcher of its own for the param,
\* where the route's matcher is in force; a committed route matches a path if
\* and only if its pattern matches it and every param value satisfies the
\* matcher in force, and match() does not return a route for a path that
\* fails one.
C23_WhereConstrains ==
    [][(lastCall' = "commit" /\ ~router.commited /\ thrown' = "none") =>
          LET flat == ToRoutesJSON(router.heap, router.routes)
          IN  /\ Len(router'.store) = Len(flat)
              /\ \A i \in 1..Len(flat), url \in MatcherUrls :
                     LET segments == PathSegments(url)
                         fails    == FailsMatcher(router.globalMatchers, flat[i], segments)
                     IN  /\ RouteMatches(router'.store[i], segments)
                                <=> (Matches(flat[i].pattern, segments) /\ ~fails)
                         /\ (Matches(flat[i].pattern, segments) /\ fails) =>
                                \A method \in flat[i].methods, hostname \in Hosts :
                                    Match(router', url, method, hostname).route
                                        # router'.store[i]
      ]_vars

\* two calls were made before commit(): a get() of /users/:id with the matcher
\* any of its own for id, and (no middleware being attached to the route, and
\* nothing being left in routes or in the global matchers) a where('id',
\* number); once committed, the route matches /users/create, which the
\* router's matcher would refuse
C23_Witness ==
    /\ router.commited
    /\ lastCall = "commit"
    /\ calls = 2
    /\ router.routes = << >>
    /\ router.globalMatchers = {}
    /\ Len(router.store) = 1
    /\ router.store[1].middleware = << >>
    /\ router.store[1].matchers = {<<"id", "any">>}
    /\ Match(router, MakePath(Words(<<"users", "create">>)), "GET", NoHost).found
    /\ Match(router, MakePath(Words(<<"users", "1">>)), "GET", NoHost).found

\* the groups of the heap that hold the entity
Holders(heap, id) ==
    {g \in 1..Len(heap) :
        heap[g].kind = "group" /\ \E k \in 1..Len(heap[g].routes) : heap[g].routes[k] = id}

InRoutes(routes, id) == \E k \in 1..Len(routes) : routes[k] = id

\* C24: a route, resource, brisk route or group registered while group
\* callbacks are executing is placed last in the innermost group whose
\* callback is executing and nowhere else, and at the end of the top-level
\* routes list and in no group when none is executing; a group's callback
\* that returns closes the innermost open group only, so that later
\* registrations go to the enclosing group.
C24_InnermostGroup ==
    [][(lastCall' = "register") =>
          IF Len(router'.heap) = Len(router.heap) + 1
          THEN LET id    == Len(router'.heap)
                   open  == router.openedGroups
                   inner == open[Len(open)]
               IN  /\ IF open = << >>
                      THEN /\ router'.routes = Append(router.routes, id)
                           /\ Holders(router'.heap, id) = {}
                      ELSE /\ router'.routes = router.routes
                           /\ ~InRoutes(router'.routes, id)
                           /\ Holders(router'.heap, id) = {inner}
                           /\ router'.heap[inner].routes = Append(router.heap[inner].routes, id)
                   /\ router'.openedGroups =
                          IF router'.heap[id].kind = "group" THEN Append(open, id) ELSE open
          ELSE Len(router'.openedGroups) < Len(router.openedGroups) =>
                   /\ router'.openedGroups
                          = SubSeq(router.openedGroups, 1, Len(router.openedGroups) - 1)
                   /\ router'.heap = router.heap
                   /\ router'.routes = router.routes
      ]_vars

\* a group was opened inside another and a route registered in it; its
\* callback returned, and the next registration went to the outer group, after
\* the inner group
C24_Witness ==
    /\ Len(router.heap) = 4
    /\ router.openedGroups = <<1>>
    /\ router.routes = <<1>>
    /\ router.heap[1].kind = "group" /\ router.heap[1].routes = <<2, 4>>
    /\ router.heap[2].kind = "group" /\ router.heap[2].routes = <<3>>
    /\ router.heap[3].kind = "route"
    /\ router.heap[4].kind = "resource"

\* C25: when several of the routes committed match the same path and method
\* in the scope match() selects for the hostname, match() returns the one
\* registered first (the first of them in the flattened registration order),
\* with the params its pattern takes from the path.
C25_FirstRegisteredWins ==
    [][(lastCall' = "commit" /\ ~router.commited /\ thrown' = "none") =>
          LET flat == ToRoutesJSON(router.heap, router.routes)
          IN  /\ Len(router'.store) = Len(flat)
              /\ \A url \in Urls, method \in RequestMethods, hostname \in Hosts :
                     LET segments == PathSegments(url)
                         scope == MatchDomain(router'.store, hostname)
                         cands == {i \in 1..Len(flat) :
                                      /\ flat[i].domain = scope
                                      /\ method \in flat[i].methods
                                      /\ RouteMatches(router'.store[i], segments)}
                         first == CHOOSE i \in cands : \A j \in cands : i <= j
                         m     == Match(router', url, method, hostname)
                     IN  Cardinality(cands) > 1 =>
                             /\ m.found
                             /\ m.route = router'.store[first]
                             /\ m.route.pattern = flat[first].pattern
                             /\ m.route.name = flat[first].name
                             /\ m.params = DecodeParams(Captured(flat[first].pattern, segments))
      ]_vars

\* route('/users/:slug', ['GET', 'PUT']) was registered before the named
\* get('/users/:id'), and both are committed: GET /users/1 is answered by the
\* first, with 1 as the slug
C25_Witness ==
    /\ router.commited
    /\ Len(router.store) = 2
    /\ router.store[1].pattern = UserBySlug
    /\ router.store[2].pattern = User
    /\ router.store[2].domain = RootDomain
    /\ Match(router, MakePath(Words(<<"users", "1">>)), "GET", NoHost).route = router.store[1]
    /\ Match(router, MakePath(Words(<<"users", "1">>)), "GET", NoHost).params
           = <<<<"slug", <<"1">>>>>>

\* the domains of the store that the hostname matches: the literal ones, and
\* the ones with params
LiteralDomains(store, hostname) ==
    {d \in DomainsOfHost(store, hostname) : NumParams(d) = 0}

ParamDomains(store, hostname) ==
    {d \in DomainsOfHost(store, hostname) : NumParams(d) > 0}

\* C26: when the hostname matches a literal domain and a parameterized domain
\* of the routes committed, match() selects the routes of the literal domain,
\* in whichever order the two domains were registered: it returns the first
\* route of the literal domain that matches the path and method, and null
\* when there is none, also when a route of the parameterized domain matches.
C26_LiteralDomainFirst ==
    [][(lastCall' = "commit" /\ ~router.commited /\ thrown' = "none") =>
          \A hostname \in Hosts :
              LET literal == LiteralDomains(router'.store, hostname)
              IN  (literal # {} /\ ParamDomains(router'.store, hostname) # {}) =>
                      /\ MatchDomain(router'.store, hostname) \in literal
                      /\ \A url \in Urls, method \in RequestMethods :
                             LET m     == Match(router', url, method, hostname)
                                 cands == UNION {Candidates(router'.store, d, url, method) :
                                                     d \in literal}
                             IN  IF cands = {}
                                 THEN m = NoMatch
                                 ELSE /\ m.found
                                      /\ m.route.domain \in literal
                                      /\ m.route = router'.store[CHOOSE i \in cands :
                                                                    \A j \in cands : i <= j]
                                      /\ m.subdomains = NoParams
      ]_vars

\* GET /users was registered under :tenant.adonisjs.com before /users under
\* blog.adonisjs.com: a GET /users for the host blog.adonisjs.com is answered
\* by the route of blog.adonisjs.com, and the same request for the host
\* shop.adonisjs.com by the route of the tenant domain
C26_Witness ==
    /\ router.commited
    /\ Len(router.store) = 2
    /\ router.store[1].domain = Tenant /\ router.store[1].pattern = Users
    /\ router.store[2].domain = Blog /\ router.store[2].pattern = Users
    /\ Match(router, LiteralPath(Users), "GET", Words(<<"blog", "adonisjs", "com">>)).route
           = router.store[2]
    /\ Match(router, LiteralPath(Users), "GET", Words(<<"shop", "adonisjs", "com">>)).route
           = router.store[1]

\* the methods a request may have: those any() registers, and one it does not
AllRequestMethods == AnyMethods \cup {"TRACE"}

\* the methods the route of each path is to have, by the registration method
\* that was called for the path
MethodsFor(word) ==
    CASE word = "get"    -> {"GET", "HEAD"}
      [] word = "post"   -> {"POST"}
      [] word = "put"    -> {"PUT"}
      [] word = "patch"  -> {"PATCH"}
      [] word = "delete" -> {"DELETE"}
      [] word = "any"    -> {"HEAD", "OPTIONS", "GET", "POST", "PUT", "PATCH", "DELETE"}
      [] word = "route"  -> {"GET", "PUT"}

\* the word of a one-segment literal pattern
WordOf(pattern) == pattern[1].val[1]

\* C27: the method set of a route is fixed by the registration method: get()
\* registers GET and HEAD, post(), put(), patch() and delete() exactly their
\* method, any() the seven common methods and route() exactly the list given;
\* after commit() a request for the path of a route is matched if and only if
\* its method is one of those, so a get() route answers HEAD and no method
\* outside {GET, HEAD}.
C27_MethodSets ==
    /\ \A id \in 1..Len(router.heap) :
           router.heap[id].kind = "route" =>
               router.heap[id].json.methods = MethodsFor(WordOf(router.heap[id].json.pattern))
    /\ \A i \in 1..Len(router.store), method \in AllRequestMethods :
           LET route == router.store[i]
               m     == Match(router, LiteralPath(route.pattern), method, NoHost)
           IN  /\ route.methods = MethodsFor(WordOf(route.pattern))
               /\ m.found <=> method \in MethodsFor(WordOf(route.pattern))
               /\ m.found => m.route = route

\* a get() route and a post() route are committed: HEAD /get is answered by
\* the get() route, POST /get by none, and POST /post by the post() route
C27_Witness ==
    /\ router.commited
    /\ Len(router.store) = 2
    /\ WordOf(router.store[1].pattern) = "get"
    /\ WordOf(router.store[2].pattern) = "post"
    /\ Match(router, <<"/", "get">>, "HEAD", NoHost).route = router.store[1]
    /\ Match(router, <<"/", "get">>, "POST", NoHost) = NoMatch
    /\ Match(router, <<"/", "post">>, "POST", NoHost).route = router.store[2]
    /\ Match(router, <<"/", "post">>, "GET", NoHost) = NoMatch

\* a use() call has returned: the router's middleware list has changed
UseStep == lastCall' = "register" /\ router'.middleware # router.middleware

\* commit() has stored routes that were all registered with get(), so that the
\* route at a position of the store is the entity at that position of routes
CommitOfRoutes ==
    /\ lastCall' = "commit" /\ ~router.commited /\ thrown' = "none"
    /\ \A k \in 1..Len(router.routes) : router.heap[router.routes[k]].kind = "route"

\* C28 as stated: the global middleware accumulates across use() calls in call
\* order, and each route carries the global middleware accumulated at the
\* moment it was registered: a use() call changes the middleware of no route
\* registered before it, and the routes are committed with the middleware
\* they were given at registration.
C28_AttachedAtRegistration ==
    [][/\ UseStep =>
              /\ IsPrefix(router.middleware, router'.middleware)
              /\ RoutesJSON(router') = RoutesJSON(router)
       /\ CommitOfRoutes =>
              \A k \in 1..Len(router.routes) :
                  router'.store[k].middleware = router.heap[router.routes[k]].given
      ]_vars

\* C28 amended: the global middleware accumulates across use() calls in call
\* order, and every route is committed with the whole list accumulated up to
\* commit(), which begins with what the list held when the route was
\* registered: middleware added by a use() call made after the registration
\* of a route, and before commit(), runs for that route as well.
C28_AttachedAtCommit ==
    [][/\ UseStep =>
              /\ IsPrefix(router.middleware, router'.middleware)
              /\ \A i \in 1..Len(RoutesJSON(router')) :
                     RoutesJSON(router')[i].middleware = router'.middleware
       /\ CommitOfRoutes =>
              \A k \in 1..Len(router.routes) :
                  /\ router'.store[k].middleware = router.middleware
                  /\ IsPrefix(router.heap[router.routes[k]].given, router'.store[k].middleware)
      ]_vars

\* GET /users was registered when the router had no middleware, use([log,
\* acl]) was called after it, and the route now carries log and acl: commit()
\* stores it with them
C28_Witness ==
    /\ ~router.commited
    /\ calls = 2
    /\ router.routes = <<1>>
    /\ router.heap[1].kind = "route"
    /\ router.heap[1].given = << >>
    /\ router.middleware = <<"log", "acl">>
    /\ RoutesJSON(router)[1].middleware = <<"log", "acl">>
    /\ Commit(router).router.store[1].middleware = <<"log", "acl">>

\* run(ctx) has settled
Settled == run.pc = "done"

\* C29: every run of the pipeline terminates: run(ctx) eventually settles,
\* resolved (completed) or rejected (faulted) and not both, not before the
\* whole chain has unwound (no stage is left waiting for next()), and once
\* settled the run changes no more.
C29_Terminates ==
    /\ <>Settled
    /\ [](Settled <=> run.outcome \in {"completed", "faulted"})
    /\ [](Settled => run.frames = << >>)
    /\ [][Settled => run' = run]_vars

\* a run through MaxStages middleware that all called next() has settled after
\* the error handler was called: every one of the stages was left waiting and
\* has unwound
C29_Witness ==
    /\ Settled
    /\ Len(Chain(cfg)) = MaxStages
    /\ \A i \in 1..MaxStages : CallsNext(Chain(cfg)[i].kind)
    /\ Len(run.ehCalls) = 1
    /\ run.outcome \in {"completed", "faulted"}

----------------------------------------------------------------------------
(* Claims about requests handled at the same time, checked under SpecInflight *)

\* the request has been received
Received(q) == inflight.requests[q].ctx # 0

\* the next step of a run that is on its own
StepOf(c, r) ==
    CASE r.pc = "pending" -> StartRun(r)
      [] r.pc = "down" /\ r.idx <= Len(Chain(c)) -> EnterStage(c, r)
      [] r.pc = "down" /\ r.idx > Len(Chain(c)) -> EnterHandler(c, r)
      [] r.pc = "caught" -> HandleError(c, r)
      [] r.pc = "up" /\ r.frames # << >> -> ReturnUpstream(c, r)
      [] r.pc = "up" /\ r.frames = << >> -> Complete(r)
      [] r.pc = "rejected" -> Reject(r)
      [] OTHER -> r

RECURSIVE RunAlone(_, _)
\* the run of a request that no other request is interleaved with, settled
RunAlone(c, r) == IF r.pc = "done" THEN r ELSE RunAlone(c, StepOf(c, r))

\* C30: however the steps of the requests in flight are interleaved, each
\* request has a context of its own, every use of a context is by the request
\* it was created for (and these uses are the entries of that request's log,
\* in order), the error handler is called with the request's own context, the
\* stages of each request are entered in registration order, and the log of
\* each request is at every moment the beginning of the log the request has
\* when it runs alone.
C30_RequestsIsolated ==
    \A q \in 1..NumRequests :
        Received(q) =>
            LET req == inflight.requests[q]
                c   == [cfg EXCEPT !.ctx = req.ctx]
            IN  /\ \A p \in 1..NumRequests :
                       Received(p) /\ p # q => inflight.requests[p].ctx # req.ctx
                /\ inflight.contexts[req.ctx] = Uses(q, req.run.log, 0)
                /\ \A k \in 1..Len(req.run.ehCalls) : req.run.ehCalls[k].ctx = req.ctx
                /\ IsPrefix(SelectSeq(req.run.log, IsStageEntry), StageEntries(c))
                /\ IsPrefix(req.run.log, RunAlone(c, NewRun).log)

\* two requests are in flight, each waiting at the await next() of every one
\* of the MaxInflightStages stages it has entered with its own context;
\* request 2 was received first (its context was created first)
C30_Witness ==
    /\ \A q \in 1..2 :
           /\ Received(q)
           /\ inflight.requests[q].run.pc = "down"
           /\ Len(inflight.requests[q].run.frames) = MaxInflightStages
           /\ Len(inflight.contexts[inflight.requests[q].ctx]) = MaxInflightStages
    /\ inflight.requests[1].ctx = 2
    /\ inflight.requests[2].ctx = 1

----------------------------------------------------------------------------
(* Claims about failing calls on the router *)

\* commit() has raised the duplicate-route-name error
CommitFailed == lastCall' = "commit" /\ thrown' = "DuplicateRouteName"

\* C31: a commit() that fails with the duplicate-route-name error leaves the
\* router as it was before the call: no route has been added to the routes
\* store or to the lookup index, match() and makeUrl() answer as before, the
\* routes list is retained and the router is not marked committed.
C31_FailedCommitLeavesRouter ==
    [][CommitFailed =>
          /\ router'.store = router.store
          /\ router'.lookup = router.lookup
          /\ router'.usingDomains = router.usingDomains
          /\ router'.routes = router.routes
          /\ router'.commited = router.commited
      ]_vars

\* C32: a group() call whose callback raises closes the group all the same:
\* the stack of open groups is after the call as it was before it, and what
\* is registered afterwards is not placed inside that group (every group of
\* SpecGroupFault is one whose callback raised: the entity registered goes to
\* the top-level routes list and into no group).
C32_GroupClosedOnRaise ==
    [][/\ (lastCall' = "group" /\ thrown' = "CallbackError") =>
              router'.openedGroups = router.openedGroups
       /\ (lastCall' = "register" /\ Len(router'.heap) = Len(router.heap) + 1) =>
              /\ Holders(router'.heap, Len(router'.heap)) = {}
              /\ router'.routes = Append(router.routes, Len(router'.heap))
      ]_vars

====
